---- MODULE Spec2Model ----
(***************************************************************************)
(* Detection engine of obsidian-codeblock-language-detector:               *)
(* DetectorRegistry, DetectionOrchestrator, ConfigurationManager and the   *)
(* three built-in detectors, as a state machine.                           *)
(*                                                                         *)
(* Numbers.  Confidences and the global threshold are percentages; they    *)
(* are held as integers counting 1/PctScale of a percentage point, so      *)
(* 70.4 % is 704 * PctScale / 10; PctScale is a multiple of every          *)
(* denominator the scoring divides by.  A detector's minConfidence is a    *)
(* fraction 0..1; it is held as an integer counting 1/FracScale, so 0.703  *)
(* is 703 when FracScale = 1000.  Every comparison between the two scales  *)
(* is cross-multiplied, so the arithmetic is exact.                        *)
(***************************************************************************)
EXTENDS Integers, Sequences, FiniteSets, TLC

VARIABLES
    registeredDetectors,      \* DetectorRegistry.registeredDetectors: the Map's keys in insertion order
    instances,                \* the Map's values: name -> state of the detector instance
    detectionOrder,           \* DetectorRegistry.detectionOrder
    confidenceThreshold,      \* DetectionOrchestrator.confidenceThreshold (percent, PctScale units)
    enabledPatternLanguages,  \* DetectionOrchestrator.enabledPatternLanguages
    lastOp,                   \* history: the last operation that was called, with its arguments
    code,                     \* the code string handed to the detection calls (a sequence of
                              \* lexical tokens: whitespace characters, words, comment markers)
    oracle,                   \* what each detector's underlying classifier answers for code
    seqPc,                    \* detectLanguage: "idle", "loop" (before a detector), "awaiting", "returned"
    seqDetectors,             \* detectLanguage: the local `detectors` (names of the instances)
    seqIdx,                   \* detectLanguage: position of the for-loop in `detectors`
    seqPending,               \* detectLanguage: the promise of the detector being awaited
    seqResult,                \* detectLanguage: what the call returned (or that it threw)
    seqInvoked,               \* history: the detectors whose detectLanguage this call has invoked
    seqOutcomes,              \* history: what each invoked detector's promise settled to
    seqPrev,                  \* history: what the previous completed detectLanguage call returned
    seqHeld,                  \* detector objects the local `detectors` holds that left the map
    allPc,                    \* detectWithAllMethods: "idle", "awaiting" (allSettled), "returned"
    allDetectors,             \* detectWithAllMethods: the local `allDetectors` (names of the instances)
    allPromises,              \* detectWithAllMethods: `detectionPromises`, one per detector
    allResult,                \* detectWithAllMethods: the returned list
    anaPc,                    \* detectWithAnalysis: "idle", "all", "primary", "returned"
    anaOptions,               \* detectWithAnalysis: the options argument
    anaValid,                 \* detectWithAnalysis: the local `validResults` (object references)
    anaFallback,              \* detectWithAnalysis: the local `fallbackResults` (object references)
    anaOut,                   \* detectWithAnalysis: the returned object
    patterns,                 \* PatternMatchingDetector.patterns: language -> definition
    patternResult,            \* what the last direct call of the pattern detector returned
    modelOperations,          \* VSCodeDetector.modelOperations: 0 (null) or the model object
    isInitialized,            \* VSCodeDetector.isInitialized
    initializationPromise,    \* VSCodeDetector.initializationPromise
    modelCount,               \* history: how often `new ModelOperations()` was evaluated
    constructed,              \* history: how often since the last dispose()
    mlCalls                   \* the calls of the ML detector in flight, one per caller

registryVars == <<registeredDetectors, instances, detectionOrder>>

configVars == <<confidenceThreshold, enabledPatternLanguages>>

seqLocals == <<seqPc, seqDetectors, seqIdx, seqPending, seqResult, seqInvoked,
               seqOutcomes, seqPrev>>

seqVars == <<seqLocals, seqHeld>>

allVars == <<allPc, allDetectors, allPromises, allResult>>

anaVars == <<anaPc, anaOptions, anaValid, anaFallback, anaOut>>

patVars == <<patterns, patternResult>>

mlVars == <<modelOperations, isInitialized, initializationPromise, modelCount, constructed,
           mlCalls>>

detectorVars == <<patVars, mlVars>>

callVars == <<code, oracle, seqVars, allVars, anaVars, detectorVars>>

vars == <<registryVars, configVars, lastOp, callVars>>

-----------------------------------------------------------------------------
(* Bounds and number representation *)

MaxOrderLen == 3

PctScale == 2520

FracScale == 1000

Pct(p) == p * PctScale

Frac(permille) == (permille * FracScale) \div 1000

-----------------------------------------------------------------------------
(* Sequence helpers *)

Range(s) == {s[i] : i \in 1..Len(s)}

Includes(s, x) == \E i \in 1..Len(s) : s[i] = x

RECURSIVE FilterOut(_, _)
FilterOut(s, x) ==
    IF s = << >> THEN << >>
    ELSE IF Head(s) = x THEN FilterOut(Tail(s), x)
         ELSE <<Head(s)>> \o FilterOut(Tail(s), x)

RECURSIVE FilterIn(_, _)
FilterIn(s, S) ==
    IF s = << >> THEN << >>
    ELSE IF Head(s) \in S THEN <<Head(s)>> \o FilterIn(Tail(s), S)
         ELSE FilterIn(Tail(s), S)

SeqsUpTo(S, n) == UNION {[1..k -> S] : k \in 0..n}

NoDuplicates(s) == \A i, j \in 1..Len(s) : s[i] = s[j] => i = j

-----------------------------------------------------------------------------
(* Names *)

VSCodeName == "vscode-ml"

HighlightJsName == "highlight-js"

PatternName == "pattern-matching"

CustomName == "custom"

DetectorNames == {VSCodeName, HighlightJsName, PatternName, CustomName}

ArgNames == DetectorNames \cup {"nonexistent"}

\* The names the registry-only specification registers and passes as arguments.
RegistryNames == {VSCodeName, PatternName, CustomName}

RegistryArgNames == RegistryNames \cup {"nonexistent"}

Languages == {"alpha", "beta"}

DefaultOrder == <<VSCodeName, HighlightJsName, PatternName>>

NoOp == [op |-> "none"]

\* A detector instance as the constructors build it: the threshold as given
\* (not clamped), the pattern detector with its own enabled-language list.
NewInstance(name, minConf, langs) ==
    [minConfidence |-> minConf,
     enabledLanguages |-> IF name = PatternName THEN langs ELSE {}]

-----------------------------------------------------------------------------
(* DetectorRegistry *)

RegistryHas(name) == name \in DOMAIN instances

\* The detector object registered under the name leaves the map (Map.delete,
\* or Map.set with another object): a suspended detectLanguage call whose
\* local `detectors` array holds the object keeps it.
Held(name) ==
    IF /\ seqPc = "awaiting"
       /\ RegistryHas(name)
       /\ name \in Range(seqDetectors)
       /\ name \notin DOMAIN seqHeld
    THEN [n \in (DOMAIN seqHeld) \cup {name} |->
             IF n = name THEN instances[name] ELSE seqHeld[n]]
    ELSE seqHeld

RegisterDetector(name, minConf, langs) ==
    /\ registeredDetectors' =
          IF RegistryHas(name) THEN registeredDetectors
          ELSE Append(registeredDetectors, name)
    /\ instances' = [n \in (DOMAIN instances) \cup {name} |->
                        IF n = name THEN NewInstance(name, minConf, langs)
                        ELSE instances[n]]
    /\ detectionOrder' =
          IF ~Includes(detectionOrder, name) THEN Append(detectionOrder, name)
          ELSE detectionOrder
    /\ lastOp' = [op |-> "registerDetector", name |-> name, minConfidence |-> minConf]
    /\ seqHeld' = Held(name)
    /\ UNCHANGED <<configVars, code, oracle, seqLocals, allVars, anaVars, detectorVars>>

UnregisterDetector(name) ==
    /\ registeredDetectors' = FilterOut(registeredDetectors, name)
    /\ instances' = [n \in (DOMAIN instances) \ {name} |-> instances[n]]
    /\ detectionOrder' = FilterOut(detectionOrder, name)
    /\ lastOp' = [op |-> "unregisterDetector", name |-> name]
    /\ seqHeld' = Held(name)
    /\ UNCHANGED <<configVars, code, oracle, seqLocals, allVars, anaVars, detectorVars>>

\* A setDetectionOrder that forgets the filter on registered names.
ValidOrderUnfiltered(order) == order

ValidOrder(order) == FilterIn(order, DOMAIN instances)

SetDetectionOrder(order) ==
    /\ detectionOrder' = ValidOrder(order)
    /\ lastOp' = [op |-> "setDetectionOrder", order |-> order]
    /\ UNCHANGED <<registeredDetectors, instances, configVars, callVars>>

\* A setDetectorEnabled that puts an enabled name first.
SetDetectorEnabledAtFront(name, enabled) ==
    /\ detectionOrder' =
          IF enabled
          THEN IF ~Includes(detectionOrder, name) /\ RegistryHas(name)
               THEN <<name>> \o detectionOrder
               ELSE detectionOrder
          ELSE FilterOut(detectionOrder, name)
    /\ lastOp' = [op |-> "setDetectorEnabled", name |-> name, enabled |-> enabled]
    /\ UNCHANGED <<registeredDetectors, instances, configVars, callVars>>

SetDetectorEnabled(name, enabled) ==
    /\ detectionOrder' =
          IF enabled
          THEN IF ~Includes(detectionOrder, name) /\ RegistryHas(name)
               THEN Append(detectionOrder, name)
               ELSE detectionOrder
          ELSE FilterOut(detectionOrder, name)
    /\ lastOp' = [op |-> "setDetectorEnabled", name |-> name, enabled |-> enabled]
    /\ UNCHANGED <<registeredDetectors, instances, configVars, callVars>>

GetDetectorsInOrder == FilterIn(detectionOrder, DOMAIN instances)

\* new DetectorRegistry(initialOrder): an empty map and a copy of the order.
RegistryInit(initialOrder) ==
    /\ registeredDetectors = << >>
    /\ instances = << >>
    /\ detectionOrder = initialOrder

-----------------------------------------------------------------------------
(* Code strings and numbers *)

Whitespace == {" ", "\t", "\n"}

RECURSIVE TrimStart(_)
TrimStart(c) ==
    IF c # << >> /\ Head(c) \in Whitespace THEN TrimStart(Tail(c)) ELSE c

RECURSIVE TrimEnd(_)
TrimEnd(c) ==
    IF c # << >> /\ c[Len(c)] \in Whitespace THEN TrimEnd(SubSeq(c, 1, Len(c) - 1)) ELSE c

Trim(c) == TrimEnd(TrimStart(c))

\* !code || code.trim().length === 0, the first statement of every detector
IsBlank(c) == Len(c) = 0 \/ Len(Trim(c)) = 0

Min(a, b) == IF a <= b THEN a ELSE b

Max(a, b) == IF a >= b THEN a ELSE b

\* Math.round of a non-negative percentage held in PctScale units
RoundPct(x) == ((2 * x + PctScale) \div (2 * PctScale)) * PctScale

\* Math.round(f * 100) of a fraction held in FracScale units, in PctScale units
RoundFracToPct(f) == ((200 * f + FracScale) \div (2 * FracScale)) * PctScale

BelowMinConfidenceInclusive(confidence, minConf) ==
    confidence * FracScale <= minConf * 100 * PctScale

\* confidence < this.minConfidence * 100
BelowMinConfidence(confidence, minConf) ==
    confidence * FracScale < minConf * 100 * PctScale

-----------------------------------------------------------------------------
(* Detection results and the detectors *)

NoneOutcome == [kind |-> "none"]

ThrowOutcome == [kind |-> "throw"]

RunningPromise == [kind |-> "running"]

NoPromise == [kind |-> "idle"]

Unknown == [kind |-> "unknown"]

\* No detectLanguage call has returned yet
NoReturn == [kind |-> "nothing"]

\* No options object (no detectWithAnalysis call yet)
NoOptions == [kind |-> "nothing"]

DetectionResult(language, confidence, method) ==
    [kind |-> "result", language |-> language, confidence |-> confidence,
     method |-> method]

\* results.sort((a, b) => b.confidence - a.confidence): a stable sort
RECURSIVE InsertDesc(_, _)
InsertDesc(sorted, r) ==
    IF sorted = << >> THEN <<r>>
    ELSE IF Head(sorted).confidence >= r.confidence
         THEN <<Head(sorted)>> \o InsertDesc(Tail(sorted), r)
         ELSE <<r>> \o sorted

RECURSIVE SortDesc(_)
SortDesc(s) ==
    IF s = << >> THEN << >>
    ELSE InsertDesc(SortDesc(SubSeq(s, 1, Len(s) - 1)), s[Len(s)])

\* VSCodeDetector.detectLanguage after the model has run: answer is the
\* model's top result (confidence a fraction) or none.
VSCodeDetect(inst, c, answer) ==
    IF IsBlank(c) THEN NoneOutcome
    ELSE IF answer.kind = "none" THEN NoneOutcome
    ELSE LET confidence == RoundFracToPct(answer.confidence)
         IN  IF BelowMinConfidence(confidence, inst.minConfidence) THEN NoneOutcome
             ELSE DetectionResult(answer.language, confidence, VSCodeName)

\* HighlightJsDetector.calculateConfidence
CalculateConfidence(relevance, codeLength) ==
    IF relevance <= 0 THEN 0
    ELSE LET base == Min(Pct(100), relevance * Pct(10))
             adjusted == IF codeLength < 50 THEN (base * 7) \div 10
                         ELSE IF codeLength < 100 THEN (base * 85) \div 100
                         ELSE IF codeLength > 500 THEN (base * 11) \div 10
                         ELSE base
         IN  Min(Pct(100), Max(0, adjusted))

\* HighlightJsDetector.detectLanguage: answer is highlightAuto's language and
\* relevance, or none when it reports no language.
HighlightJsDetect(inst, c, answer) ==
    IF IsBlank(c) THEN NoneOutcome
    ELSE IF answer.kind = "none" THEN NoneOutcome
    ELSE LET confidence == CalculateConfidence(answer.relevance, Len(c))
         IN  IF BelowMinConfidence(confidence, inst.minConfidence) THEN NoneOutcome
             ELSE DetectionResult(answer.language, RoundPct(confidence), HighlightJsName)

\* The pattern catalogue in the iteration order of the patterns Map
PatternLanguages == <<"alpha", "beta">>

\* PatternMatchingDetector.isLanguageEnabled
IsLanguageEnabled(inst, language) ==
    IF inst.enabledLanguages = {} THEN TRUE
    ELSE language \in inst.enabledLanguages

\* The loop over this.patterns: one candidate per enabled language whose
\* confidence is positive; scores[l] is calculateLanguageConfidence(code, l).
RECURSIVE PatternCandidates(_, _, _)
PatternCandidates(inst, scores, langs) ==
    IF langs = << >> THEN << >>
    ELSE LET l == Head(langs)
             rest == PatternCandidates(inst, scores, Tail(langs))
         IN  IF IsLanguageEnabled(inst, l) /\ scores[l] > 0
             THEN <<[language |-> l, confidence |-> scores[l]]>> \o rest
             ELSE rest

\* PatternMatchingDetector.detectLanguage
PatternDetect(inst, c, answer) ==
    IF IsBlank(c) THEN NoneOutcome
    ELSE LET results == SortDesc(PatternCandidates(inst, answer.scores, PatternLanguages))
         IN  IF results = << >> \/ BelowMinConfidence(results[1].confidence, inst.minConfidence)
             THEN NoneOutcome
             ELSE DetectionResult(results[1].language, RoundPct(results[1].confidence),
                                  PatternName)

\* The tokens of a code string that are comment markers, not words
CommentMarkers == {"//", "#", "/*", "*/"}

\* extractWords: the matches of /\b[a-zA-Z_][a-zA-Z0-9_]*\b/g, as a set
ExtractWords(c) ==
    {c[i] : i \in {j \in 1..Len(c) : c[j] \notin Whitespace \cup CommentMarkers}}

\* list.filter(entry => codeWords.has(entry)).length
CountMatches(list, words) == Cardinality({i \in 1..Len(list) : list[i] \in words})

KeywordCap == 10

BuiltinCap == 15

MaxPatterns == 8

MatchRatioUncapped(matches, denominator) == (matches * Pct(100)) \div denominator

\* Math.min(100, (matches / denominator) * 100)
MatchRatio(matches, denominator) ==
    Min(Pct(100), (matches * Pct(100)) \div denominator)

\* calculateKeywordScore
CalculateKeywordScore(c, keywords) ==
    IF Len(keywords) = 0 THEN 0
    ELSE MatchRatio(CountMatches(keywords, ExtractWords(c)), Min(Len(keywords), KeywordCap))

\* A regex source: one that does not compile, or one that matches the code
\* exactly when the code holds its token.
InvalidRegex == [valid |-> FALSE, token |-> ""]

TokenRegex(token) == [valid |-> TRUE, token |-> token]

\* new RegExp(pattern, 'gi').test(code), false when the constructor throws
RegexMatches(regex, c) == regex.valid /\ \E i \in 1..Len(c) : c[i] = regex.token

\* calculatePatternScore
CalculatePatternScore(c, regexes) ==
    IF Len(regexes) = 0 THEN 0
    ELSE LET maxPatterns == Min(Len(regexes), MaxPatterns)
             matches == Cardinality({i \in 1..maxPatterns : RegexMatches(regexes[i], c)})
         IN  (matches * Pct(100)) \div maxPatterns

\* calculateImportScore
CalculateImportScore(c, imports) ==
    IF Len(imports) = 0 THEN 0
    ELSE MatchRatio(CountMatches(imports, ExtractWords(c)), Len(imports))

\* calculateBuiltinScore
CalculateBuiltinScore(c, builtins) ==
    IF Len(builtins) = 0 THEN 0
    ELSE MatchRatio(CountMatches(builtins, ExtractWords(c)), Min(Len(builtins), BuiltinCap))

\* new RegExp(`^\\s*${marker}`, 'm').test(code): the marker follows the start
\* of a line with only whitespace in between
StartsALine(c, marker) ==
    \E i \in 1..Len(c) :
        /\ c[i] = marker
        /\ \E j \in 1..i :
              /\ j = 1 \/ c[j - 1] = "\n"
              /\ \A k \in j..(i - 1) : c[k] \in Whitespace

\* calculateCommentScore
CalculateCommentScore(c, comments) ==
    LET lines == Len(comments.line) > 0
        blocks == Len(comments.block) > 0
        lineScore == IF lines /\ \E i \in 1..Len(comments.line) :
                                     StartsALine(c, comments.line[i])
                     THEN Pct(50) ELSE 0
        blockScore == IF blocks /\ \E i \in 1..Len(comments.block) :
                             /\ comments.block[i].start \in Range(c)
                             /\ comments.block[i].end \in Range(c)
                      THEN Pct(50) ELSE 0
        checks == (IF lines THEN 1 ELSE 0) + (IF blocks THEN 1 ELSE 0)
    IN  IF checks > 0 THEN (lineScore + blockScore) \div checks ELSE 0

CalculateLanguageConfidenceEvenWeights(c, pattern) ==
    LET totalScore == CalculateKeywordScore(c, pattern.keywords) * 20
                      + CalculatePatternScore(c, pattern.patterns) * 20
                      + CalculateImportScore(c, pattern.imports) * 20
                      + CalculateBuiltinScore(c, pattern.builtins) * 20
                      + CalculateCommentScore(c, pattern.comments) * 20
    IN  totalScore \div 100

\* calculateLanguageConfidence: (totalScore / maxPossibleScore) * 100 with
\* the weights 0.4, 0.3, 0.15, 0.1, 0.05 and maxPossibleScore = 100
CalculateLanguageConfidence(c, pattern) ==
    LET totalScore == CalculateKeywordScore(c, pattern.keywords) * 40
                      + CalculatePatternScore(c, pattern.patterns) * 30
                      + CalculateImportScore(c, pattern.imports) * 15
                      + CalculateBuiltinScore(c, pattern.builtins) * 10
                      + CalculateCommentScore(c, pattern.comments) * 5
    IN  totalScore \div 100

\* The locals keywordScore, patternScore, importScore, builtinScore and
\* commentScore of calculateLanguageConfidence
SubScores(c, pattern) ==
    [keywords |-> CalculateKeywordScore(c, pattern.keywords),
     patterns |-> CalculatePatternScore(c, pattern.patterns),
     imports |-> CalculateImportScore(c, pattern.imports),
     builtins |-> CalculateBuiltinScore(c, pattern.builtins),
     comments |-> CalculateCommentScore(c, pattern.comments)]

\* A LanguagePattern (the fields the scoring reads)
LanguagePattern(keywords, regexes, imports, builtins, comments) ==
    [keywords |-> keywords, patterns |-> regexes, imports |-> imports,
     builtins |-> builtins, comments |-> comments]

NoComments == [line |-> << >>, block |-> << >>]

\* The catalogue the pattern detector loads in initializePatterns
LoadedCatalogue ==
    [l \in Languages |->
        IF l = "alpha"
        THEN LanguagePattern(<<"foo", "bar">>, <<TokenRegex("foo")>>, <<"use">>, <<"len">>,
                             [line |-> <<"//">>, block |-> <<[start |-> "/*", end |-> "*/"]>>])
        ELSE LanguagePattern(<<"def", "bar">>, <<TokenRegex("def")>>, <<"import">>, <<"len">>,
                             [line |-> <<"#">>, block |-> << >>])]

\* The scores of a code string under a catalogue, as the loop over
\* this.patterns computes them
ScoresOf(c, catalogue) ==
    [kind |-> "scores",
     scores |-> [l \in Languages |-> CalculateLanguageConfidence(c, catalogue[l])]]

\* A detector registered by a caller (ILanguageDetector): it returns none for
\* blank code and otherwise whatever its classifier says, or it throws.
CustomDetect(inst, c, answer) ==
    IF IsBlank(c) THEN NoneOutcome ELSE answer

Detect(name, inst, c, answer) ==
    IF name = VSCodeName THEN VSCodeDetect(inst, c, answer)
    ELSE IF name = HighlightJsName THEN HighlightJsDetect(inst, c, answer)
    ELSE IF name = PatternName THEN PatternDetect(inst, c, answer)
    ELSE CustomDetect(inst, c, answer)

\* What the underlying classifiers may answer for a non-blank code
ModelAnswers ==
    {NoneOutcome,
     [kind |-> "top", language |-> "alpha", confidence |-> Frac(404)],
     [kind |-> "top", language |-> "alpha", confidence |-> Frac(704)],
     [kind |-> "top", language |-> "beta", confidence |-> Frac(900)]}

HighlightAnswers ==
    {NoneOutcome,
     [kind |-> "auto", language |-> "alpha", relevance |-> 4],
     [kind |-> "auto", language |-> "beta", relevance |-> 10]}

PatternScores == {0, Pct(40), (704 * PctScale) \div 10}

PatternAnswers == {[kind |-> "scores", scores |-> f] : f \in [Languages -> PatternScores]}

CustomAnswers ==
    {NoneOutcome, ThrowOutcome,
     DetectionResult("alpha", Pct(90), CustomName),
     DetectionResult("beta", Pct(40), CustomName)}

Answers(name) ==
    IF name = VSCodeName THEN ModelAnswers
    ELSE IF name = HighlightJsName THEN HighlightAnswers
    ELSE IF name = PatternName THEN PatternAnswers
    ELSE CustomAnswers

\* A classifier that may answer differently each time it is asked
AnswerOptionsUnstable(name) ==
    IF ~IsBlank(code) THEN Answers(name) ELSE {oracle[name]}

\* The answers a detector can give now: the one it gave before for this code,
\* any answer when it is asked for the first time.
AnswerOptions(name) ==
    IF oracle[name] = Unknown /\ ~IsBlank(code) THEN Answers(name) ELSE {oracle[name]}

\* The detector object a running call has under the name: the one its local
\* `detectors` array holds
ObjectOf(name) == IF name \in DOMAIN seqHeld THEN seqHeld[name] ELSE instances[name]

\* The promise returned by detector.detectLanguage(code): the built-in
\* highlight-js and pattern detectors run to completion inside the call, the
\* ML detector suspends on its model and decides when it resumes.
PromiseOf(name, answer) ==
    IF name = VSCodeName THEN RunningPromise
    ELSE Detect(name, ObjectOf(name), code, answer)

SettledValue(name, promise) ==
    IF promise = RunningPromise
    THEN Detect(name, ObjectOf(name), code, oracle[name])
    ELSE promise

\* patternDetector.detectLanguage(code) is called directly and runs to
\* completion: the scores are computed from the code and the catalogue.
PatternDetectLanguage ==
    /\ RegistryHas(PatternName)
    /\ LET answer == ScoresOf(code, patterns)
       IN  /\ patternResult' = PatternDetect(instances[PatternName], code, answer)
           /\ oracle' = [oracle EXCEPT ![PatternName] = answer]
    /\ lastOp' = [op |-> "PatternMatchingDetector.detectLanguage",
                  subScores |-> [l \in Languages |-> SubScores(code, patterns[l])]]
    /\ UNCHANGED <<registryVars, configVars, code, seqVars, allVars, anaVars, patterns, mlVars>>

-----------------------------------------------------------------------------
(* VSCodeDetector: the lazy initialization of its model *)

MaxCallers == 2

MaxModels == 3

Callers == 1..MaxCallers

NoModel == 0

NullPromise == [kind |-> "null"]

\* Promise.resolve() / Promise.reject(error) returned by the id-th initializeModel()
SettledPromise(id, state) == [kind |-> "promise", id |-> id, state |-> state]

\* ensureInitialized() returned at once: nothing to wait for but its own promise
AlreadyInitialized == [kind |-> "initialized"]

NoCall == [pc |-> "idle", op |-> "none", awaits |-> NullPromise, model |-> NoModel,
           sinceDispose |-> FALSE]

\* The fields of a VSCodeDetector after its constructor
DetectorConstructed ==
    /\ modelOperations = NoModel
    /\ isInitialized = FALSE
    /\ initializationPromise = NullPromise
    /\ modelCount = 0
    /\ constructed = 0
    /\ mlCalls = [c \in Callers |-> NoCall]

\* initializeModel(): `new ModelOperations()` succeeds (ok) or throws
InitializeModel(ok) ==
    IF ok
    THEN [modelOperations |-> modelCount + 1, isInitialized |-> TRUE,
          promise |-> SettledPromise(modelCount + 1, "resolved")]
    ELSE [modelOperations |-> modelOperations, isInitialized |-> isInitialized,
          promise |-> SettledPromise(modelCount + 1, "rejected")]

\* An ensureInitialized that does not look at initializationPromise
EnsureInitializedUnguarded(ok) ==
    IF isInitialized
    THEN [modelOperations |-> modelOperations, isInitialized |-> isInitialized,
          initializationPromise |-> initializationPromise,
          awaits |-> AlreadyInitialized, constructs |-> FALSE]
    ELSE LET init == InitializeModel(ok)
         IN  [modelOperations |-> init.modelOperations, isInitialized |-> init.isInitialized,
              initializationPromise |-> init.promise,
              awaits |-> init.promise, constructs |-> TRUE]

\* ensureInitialized() up to its await (or return): the fields of the
\* detector afterwards, what the caller waits for, and whether the model
\* constructor ran.
EnsureInitialized(ok) ==
    IF isInitialized
    THEN [modelOperations |-> modelOperations, isInitialized |-> isInitialized,
          initializationPromise |-> initializationPromise,
          awaits |-> AlreadyInitialized, constructs |-> FALSE]
    ELSE IF initializationPromise # NullPromise
    THEN [modelOperations |-> modelOperations, isInitialized |-> isInitialized,
          initializationPromise |-> initializationPromise,
          awaits |-> initializationPromise, constructs |-> FALSE]
    ELSE LET init == InitializeModel(ok)
         IN  [modelOperations |-> init.modelOperations, isInitialized |-> init.isInitialized,
              initializationPromise |-> init.promise,
              awaits |-> init.promise, constructs |-> TRUE]

\* A caller enters ensureInitialized() and suspends on its await
Suspend(c, op, ok) ==
    LET ensured == EnsureInitialized(ok)
    IN  /\ ensured.constructs => modelCount < MaxModels
        /\ modelOperations' = ensured.modelOperations
        /\ isInitialized' = ensured.isInitialized
        /\ initializationPromise' = ensured.initializationPromise
        /\ modelCount' = IF ensured.constructs THEN modelCount + 1 ELSE modelCount
        /\ constructed' = IF ensured.constructs THEN constructed + 1 ELSE constructed
        /\ mlCalls' = [mlCalls EXCEPT ![c] = [pc |-> "ensure", op |-> op,
                                              awaits |-> ensured.awaits, model |-> NoModel,
                                              sinceDispose |-> TRUE]]

\* vscodeDetector.detectLanguage(code) is called: it returns null for blank
\* code and otherwise runs up to the await of ensureInitialized().
VSCodeDetectLanguage(c) ==
    /\ mlCalls[c].pc = "idle"
    /\ IF IsBlank(code)
       THEN UNCHANGED mlVars
       ELSE \E ok \in BOOLEAN : Suspend(c, "detectLanguage", ok)
    /\ lastOp' = [op |-> "VSCodeDetector.detectLanguage", caller |-> c]
    /\ UNCHANGED <<registryVars, configVars, code, oracle, seqVars, allVars, anaVars, patVars>>

\* vscodeDetector.initialize() is called
VSCodeInitialize(c) ==
    /\ mlCalls[c].pc = "idle"
    /\ \E ok \in BOOLEAN : Suspend(c, "initialize", ok)
    /\ lastOp' = [op |-> "VSCodeDetector.initialize", caller |-> c]
    /\ UNCHANGED <<registryVars, configVars, code, oracle, seqVars, allVars, anaVars, patVars>>

\* The await of ensureInitialized() is over: a rejected initialization is
\* thrown on (detectLanguage catches it and returns null), initialize() is
\* done, and detectLanguage returns null without a model or calls runModel
\* on this.modelOperations and awaits it.
VSCodeResume(c) ==
    /\ mlCalls[c].pc = "ensure"
    /\ mlCalls' =
          [mlCalls EXCEPT ![c] =
              IF /\ mlCalls[c].op = "detectLanguage"
                 /\ ~(mlCalls[c].awaits.kind = "promise" /\ mlCalls[c].awaits.state = "rejected")
                 /\ modelOperations # NoModel
              THEN [@ EXCEPT !.pc = "running", !.model = modelOperations]
              ELSE NoCall]
    /\ UNCHANGED <<modelOperations, isInitialized, initializationPromise, modelCount,
                   constructed>>
    /\ UNCHANGED <<registryVars, configVars, lastOp, code, oracle, seqVars, allVars, anaVars,
                   patVars>>

\* runModel(code) settles and detectLanguage returns
VSCodeModelSettles(c) ==
    /\ mlCalls[c].pc = "running"
    /\ mlCalls' = [mlCalls EXCEPT ![c] = NoCall]
    /\ UNCHANGED <<modelOperations, isInitialized, initializationPromise, modelCount,
                   constructed>>
    /\ UNCHANGED <<registryVars, configVars, lastOp, code, oracle, seqVars, allVars, anaVars,
                   patVars>>

\* vscodeDetector.dispose() is called
VSCodeDispose ==
    /\ modelOperations' = NoModel
    /\ isInitialized' = FALSE
    /\ initializationPromise' = NullPromise
    /\ constructed' = 0
    /\ mlCalls' = [c \in Callers |-> [mlCalls[c] EXCEPT !.sinceDispose = FALSE]]
    /\ lastOp' = [op |-> "VSCodeDetector.dispose"]
    /\ UNCHANGED <<registryVars, configVars, code, oracle, seqVars, allVars, anaVars, patVars,
                   modelCount>>

-----------------------------------------------------------------------------
(* DetectionOrchestrator.detectLanguage *)

\* if (!code || code.trim().length === 0) return null, tested on empty only
ShortCircuitsEmptyOnly(c) == Len(c) = 0

\* if (!code || code.trim().length === 0) return null
ShortCircuits(c) == Len(c) = 0 \/ Len(Trim(c)) = 0

\* isLanguageEnabledForMethod with an empty list taken as "no language"
IsLanguageEnabledForMethodStrict(language, detectorName) ==
    IF detectorName = PatternName
    THEN language \in enabledPatternLanguages
    ELSE TRUE

\* DetectionOrchestrator.isLanguageEnabledForMethod
IsLanguageEnabledForMethod(language, detectorName) ==
    IF detectorName = PatternName
    THEN IF enabledPatternLanguages = {} THEN TRUE
         ELSE language \in enabledPatternLanguages
    ELSE TRUE

\* The body of the for-loop after the await, with the catch removed
LoopDecisionNoCatch(name, settled) ==
    IF settled.kind = "throw" THEN "rethrow"
    ELSE IF /\ settled.kind = "result"
            /\ settled.confidence >= confidenceThreshold
            /\ IsLanguageEnabledForMethod(settled.language, name)
         THEN "return"
         ELSE "next"

\* The body of the for-loop after the await: return the result, go on to the
\* next detector, or (catch) warn and continue.
LoopDecision(name, settled) ==
    IF settled.kind = "throw" THEN "next"
    ELSE IF /\ settled.kind = "result"
            /\ settled.confidence >= confidenceThreshold
            /\ IsLanguageEnabledForMethod(settled.language, name)
         THEN "return"
         ELSE "next"

\* getDetectorsInOrder replaced by getAllDetectors
DetectorsToTryAll == registeredDetectors

\* const detectors = this.registry.getDetectorsInOrder()
DetectorsToTry == GetDetectorsInOrder

\* A loop that reads the registry's list again at every iteration
SeqEnterRereading(detectors, idx, invoked, outcomes) ==
    /\ seqDetectors' = GetDetectorsInOrder
    /\ seqOutcomes' = outcomes
    /\ IF idx > Len(GetDetectorsInOrder)
       THEN /\ seqPc' = "returned"
            /\ seqResult' = NoneOutcome
            /\ seqIdx' = idx
            /\ seqPending' = NoPromise
            /\ seqInvoked' = invoked
            /\ oracle' = oracle
       ELSE \E answer \in AnswerOptions(GetDetectorsInOrder[idx]) :
            /\ oracle' = [oracle EXCEPT ![GetDetectorsInOrder[idx]] = answer]
            /\ seqPending' = PromiseOf(GetDetectorsInOrder[idx], answer)
            /\ seqIdx' = idx
            /\ seqInvoked' = Append(invoked, GetDetectorsInOrder[idx])
            /\ seqResult' = NoneOutcome
            /\ seqPc' = "awaiting"

\* The loop reaches position idx of detectors: past the end it returns null,
\* otherwise it calls detectors[idx].detectLanguage(code) and awaits it.
SeqEnter(detectors, idx, invoked, outcomes) ==
    /\ seqDetectors' = detectors
    /\ seqOutcomes' = outcomes
    /\ IF idx > Len(detectors)
       THEN /\ seqPc' = "returned"
            /\ seqResult' = NoneOutcome
            /\ seqIdx' = idx
            /\ seqPending' = NoPromise
            /\ seqInvoked' = invoked
            /\ oracle' = oracle
       ELSE \E answer \in AnswerOptions(detectors[idx]) :
            /\ oracle' = [oracle EXCEPT ![detectors[idx]] = answer]
            /\ seqPending' = PromiseOf(detectors[idx], answer)
            /\ seqIdx' = idx
            /\ seqInvoked' = Append(invoked, detectors[idx])
            /\ seqResult' = NoneOutcome
            /\ seqPc' = "awaiting"

\* The body of detectLanguage(code) up to the first await, or to the return.
SeqStartCall ==
    /\ seqPc = "idle"
    /\ IF ShortCircuits(code)
       THEN /\ seqPc' = "returned"
            /\ seqResult' = NoneOutcome
            /\ seqInvoked' = << >>
            /\ seqOutcomes' = << >>
            /\ UNCHANGED <<seqDetectors, seqIdx, seqPending, oracle>>
       ELSE SeqEnter(DetectorsToTry, 1, << >>, << >>)
    /\ seqHeld' = << >>
    /\ UNCHANGED seqPrev

\* detectLanguage(code) is called by the user of the engine.
SeqStart ==
    /\ SeqStartCall
    /\ lastOp' = [op |-> "detectLanguage"]
    /\ UNCHANGED <<registryVars, configVars, detectorVars, code, allVars, anaVars>>

\* The awaited detector settles: the loop body runs, and the loop either
\* returns or goes on to call the next detector.
SeqSettle ==
    /\ seqPc = "awaiting"
    /\ LET name == seqDetectors[seqIdx]
           settled == SettledValue(name, seqPending)
           decision == LoopDecision(name, settled)
           outcomes == Append(seqOutcomes, settled)
       IN  IF decision = "return" \/ decision = "rethrow"
           THEN /\ seqPc' = "returned"
                /\ seqResult' = IF decision = "return" THEN settled
                                ELSE [kind |-> "threw"]
                /\ seqPending' = NoPromise
                /\ seqOutcomes' = outcomes
                /\ UNCHANGED <<seqDetectors, seqIdx, seqInvoked, oracle>>
           ELSE SeqEnter(seqDetectors, seqIdx + 1, seqInvoked, outcomes)
    /\ seqHeld' = IF seqPc' = "returned" THEN << >> ELSE seqHeld
    /\ UNCHANGED <<registryVars, configVars, detectorVars, lastOp, code, allVars, anaVars, seqPrev>>

\* The caller has taken the result; the engine is ready for the next call.
SeqFinish ==
    /\ seqPc = "returned"
    /\ seqPc' = "idle"
    /\ seqPrev' = seqResult
    /\ UNCHANGED <<seqDetectors, seqIdx, seqPending, seqResult, seqInvoked, seqOutcomes,
                   seqHeld>>
    /\ UNCHANGED <<registryVars, configVars, detectorVars, lastOp, code, oracle, allVars, anaVars>>

-----------------------------------------------------------------------------
(* DetectionOrchestrator.detectWithAllMethods *)

\* DetectorRegistry.getAllDetectors: the Map's values in insertion order
AllDetectors == registeredDetectors

\* allDetectors.map(...) that starts only the first detector's call
StartedByMapFirstOnly(detectors) == IF detectors = << >> THEN {} ELSE {1}

\* allDetectors.map(async detector => ...): every arrow function runs up to
\* its await, so every detector's detectLanguage has been called.
StartedByMap(detectors) == 1..Len(detectors)

\* The arrow function's try/catch: a detector that throws gives result null
WrapperValue(settled) == IF settled.kind = "throw" THEN NoneOutcome ELSE settled

\* The forEach over settledResults: fulfilled wrappers with a result, in the
\* order of the promises.
RECURSIVE CollectResults(_)
CollectResults(promises) ==
    IF promises = << >> THEN << >>
    ELSE LET value == WrapperValue(Head(promises).value)
         IN  IF value.kind = "result"
             THEN <<value>> \o CollectResults(Tail(promises))
             ELSE CollectResults(Tail(promises))

\* return results, without the sort
RankResultsUnsorted(results) == results

\* return results.sort((a, b) => b.confidence - a.confidence)
RankResults(results) == SortDesc(results)

\* The answers of detector name when the map starts the detectors at the
\* positions in started: asked now if it is one of them.
AnswersWhenStarted(name, detectors, started) ==
    IF \E i \in started : detectors[i] = name
    THEN AnswerOptions(name) ELSE {oracle[name]}

\* The body of detectWithAllMethods(code) up to its await: the map starts
\* every detector and the call suspends on Promise.allSettled.
AllStartCall ==
    /\ allPc = "idle"
    /\ LET detectors == AllDetectors
           started == StartedByMap(detectors)
       IN  \E av \in AnswersWhenStarted(VSCodeName, detectors, started),
              ah \in AnswersWhenStarted(HighlightJsName, detectors, started),
              ap \in AnswersWhenStarted(PatternName, detectors, started),
              ac \in AnswersWhenStarted(CustomName, detectors, started) :
           LET answers == [n \in DetectorNames |->
                              IF n = VSCodeName THEN av
                              ELSE IF n = HighlightJsName THEN ah
                              ELSE IF n = PatternName THEN ap
                              ELSE ac]
           IN
             /\ oracle' = answers
             /\ allDetectors' = detectors
             /\ allPromises' = [i \in 1..Len(detectors) |->
                    IF i \in started
                    THEN [state |-> "pending",
                          value |-> PromiseOf(detectors[i], answers[detectors[i]])]
                    ELSE [state |-> "unstarted", value |-> NoPromise]]
    /\ allPc' = "awaiting"
    /\ allResult' = << >>

\* detectWithAllMethods(code) is called by the user of the engine.
AllStart ==
    /\ AllStartCall
    /\ lastOp' = [op |-> "detectWithAllMethods"]
    /\ UNCHANGED <<registryVars, configVars, detectorVars, code, seqVars, anaVars>>

\* One detector's promise settles, whatever the state of the others.
AllSettle(i) ==
    /\ allPc = "awaiting"
    /\ i \in 1..Len(allPromises)
    /\ allPromises[i].state = "pending"
    /\ allPromises' = [allPromises EXCEPT ![i] =
           [state |-> "settled",
            value |-> SettledValue(allDetectors[i], allPromises[i].value)]]
    /\ UNCHANGED <<registryVars, configVars, detectorVars, lastOp, code, oracle, seqVars, anaVars,
                   allPc, allDetectors, allResult>>

\* Promise.allSettled resolves: collect, sort, return.
AllJoin ==
    /\ allPc = "awaiting"
    /\ \A i \in 1..Len(allPromises) : allPromises[i].state = "settled"
    /\ allResult' = RankResults(CollectResults(allPromises))
    /\ allPc' = "returned"
    /\ UNCHANGED <<registryVars, configVars, detectorVars, lastOp, code, oracle, seqVars, anaVars,
                   allDetectors, allPromises>>

\* The caller has taken the list.
AllFinish ==
    /\ allPc = "returned"
    /\ allPc' = "idle"
    /\ UNCHANGED <<registryVars, configVars, detectorVars, lastOp, code, oracle, seqVars, anaVars,
                   allDetectors, allPromises, allResult>>

-----------------------------------------------------------------------------
(* DetectionOrchestrator.detectWithAnalysis *)

\* A reference to a result object: every detector call builds its result as a
\* fresh object literal, so an object is known by the orchestrator call in
\* which it was built and by its contents (one object per detector and call).
Ref(call, result) == [call |-> call, obj |-> result]

\* An optional field of the options object: absent, or given with a value
Undefined == [kind |-> "undefined"]

Given(value) == [kind |-> "given", value |-> value]

\* const { includeAllResults = true, includeFallbacks = false,
\*         minConfidence = this.confidenceThreshold } = options
DestructuredOptions(options) ==
    [includeAllResults |-> IF options.includeAllResults = Undefined THEN TRUE
                           ELSE options.includeAllResults.value,
     includeFallbacks |-> IF options.includeFallbacks = Undefined THEN FALSE
                          ELSE options.includeFallbacks.value,
     minConfidence |-> IF options.minConfidence = Undefined THEN confidenceThreshold
                       ELSE options.minConfidence.value]

\* r => r.confidence > minConfidence
IsValidResultStrict(ref, minConf) == ref.obj.confidence > minConf

\* r => r.confidence >= minConfidence
IsValidResult(ref, minConf) == ref.obj.confidence >= minConf

\* allResults.filter(r => r.confidence >= minConfidence)
ValidResults(allResults, minConf) ==
    LET Test(ref) == IsValidResult(ref, minConf)
    IN  SelectSeq(allResults, Test)

\* includeFallbacks ? allResults.filter(r => r.confidence < minConfidence) : []
FallbackResults(allResults, minConf, includeFallbacks) ==
    LET Test(ref) == ref.obj.confidence < minConf
    IN  IF includeFallbacks THEN SelectSeq(allResults, Test) ELSE << >>

\* validResults.filter(r => r !== primary): !== on objects is identity
Alternatives(validResults, primary) ==
    LET Test(ref) == ref # primary
    IN  SelectSeq(validResults, Test)

\* languageCounts[result.language] = (languageCounts[result.language] || 0) + 1
\* over validResults; the keys (language names) keep their insertion order.
RECURSIVE CountLanguages(_, _)
CountLanguages(validResults, counts) ==
    IF validResults = << >> THEN counts
    ELSE LET language == Head(validResults).obj.language
             known == \E k \in 1..Len(counts) : counts[k].language = language
             counted == IF known
                        THEN [k \in 1..Len(counts) |->
                                 IF counts[k].language = language
                                 THEN [counts[k] EXCEPT !.count = @ + 1]
                                 ELSE counts[k]]
                        ELSE Append(counts, [language |-> language, count |-> 1])
         IN  CountLanguages(Tail(validResults), counted)

\* .sort(([,a], [,b]) => b - a): a stable sort
RECURSIVE InsertByCount(_, _)
InsertByCount(sorted, entry) ==
    IF sorted = << >> THEN <<entry>>
    ELSE IF Head(sorted).count >= entry.count
         THEN <<Head(sorted)>> \o InsertByCount(Tail(sorted), entry)
         ELSE <<entry>> \o sorted

RECURSIVE SortByCount(_)
SortByCount(entries) ==
    IF entries = << >> THEN << >>
    ELSE InsertByCount(SortByCount(SubSeq(entries, 1, Len(entries) - 1)),
                       entries[Len(entries)])

\* Object.entries(languageCounts) taken without the sort
RankCountsUnsorted(counts) == counts

\* Object.entries(languageCounts).sort(([,a], [,b]) => b - a)
RankCounts(counts) == SortByCount(counts)

\* Object.entries(languageCounts).sort(...)[0]?.[0] || null
ConsensusLanguage(validResults) ==
    LET ranked == RankCounts(CountLanguages(validResults, << >>))
    IN  IF ranked = << >> \/ ranked[1].language = ""
        THEN NoneOutcome
        ELSE [kind |-> "language", language |-> ranked[1].language]

RECURSIVE SumConfidence(_)
SumConfidence(validResults) ==
    IF validResults = << >> THEN 0
    ELSE Head(validResults).obj.confidence + SumConfidence(Tail(validResults))

\* Math.round(avgConfidence * 100) / 100, in hundredths of a percentage point
AverageConfidence(validResults) ==
    IF validResults = << >> THEN 0
    ELSE LET n == Len(validResults) * PctScale
         IN  (2 * 100 * SumConfidence(validResults) + n) \div (2 * n)

\* detectWithAnalysis(code, options) is called: the options are destructured
\* and detectWithAllMethods runs up to its await.
AnaStart(options) ==
    /\ anaPc = "idle"
    /\ seqPc = "idle"
    /\ anaOptions' = DestructuredOptions(options)
    /\ AllStartCall
    /\ anaPc' = "all"
    /\ anaValid' = << >>
    /\ anaFallback' = << >>
    /\ anaOut' = NoneOutcome
    /\ lastOp' = [op |-> "detectWithAnalysis", options |-> options]
    /\ UNCHANGED <<registryVars, configVars, detectorVars, code, seqVars>>

\* detectWithAllMethods has returned: the results are partitioned and
\* detectLanguage runs up to its first await, or to its return.
AnaPartition ==
    /\ anaPc = "all"
    /\ allPc = "returned"
    /\ LET allResults == [k \in 1..Len(allResult) |->
                             Ref("detectWithAllMethods", allResult[k])]
       IN  /\ anaValid' = ValidResults(allResults, anaOptions.minConfidence)
           /\ anaFallback' = FallbackResults(allResults, anaOptions.minConfidence,
                                             anaOptions.includeFallbacks)
    /\ SeqStartCall
    /\ allPc' = "idle"
    /\ anaPc' = "primary"
    /\ UNCHANGED <<registryVars, configVars, detectorVars, lastOp, code, allDetectors, allPromises,
                   allResult, anaOptions, anaOut>>

\* detectLanguage has returned: alternatives, consensus and the returned object.
AnaFinish ==
    /\ anaPc = "primary"
    /\ seqPc = "returned"
    /\ LET primary == IF seqResult.kind = "result"
                      THEN Ref("detectLanguage", seqResult)
                      ELSE NoneOutcome
           alternatives == Alternatives(anaValid, primary)
       IN  anaOut' =
             [kind |-> "analysis",
              primary |-> primary,
              alternatives |-> IF anaOptions.includeAllResults THEN alternatives
                               ELSE << >>,
              fallbacks |-> anaFallback,
              totalDetectors |-> Len(AllDetectors),
              successfulDetectors |-> Len(anaValid),
              averageConfidence |-> AverageConfidence(anaValid),
              consensusLanguage |-> ConsensusLanguage(anaValid)]
    /\ anaPc' = "returned"
    /\ seqPc' = "idle"
    /\ seqPrev' = seqResult
    /\ UNCHANGED <<registryVars, configVars, detectorVars, lastOp, code, oracle, allVars,
                   seqDetectors, seqIdx, seqPending, seqResult, seqInvoked, seqOutcomes,
                   seqHeld, anaOptions, anaValid, anaFallback>>

\* The caller has taken the analysis.
AnaReturn ==
    /\ anaPc = "returned"
    /\ anaPc' = "idle"
    /\ UNCHANGED <<registryVars, configVars, detectorVars, lastOp, code, oracle, seqVars, allVars,
                   anaOptions, anaValid, anaFallback, anaOut>>

\* No call in flight, no classifier asked yet.
DetectionIdle ==
    /\ oracle = [n \in DetectorNames |-> Unknown]
    /\ seqPc = "idle"
    /\ seqDetectors = << >>
    /\ seqIdx = 0
    /\ seqPending = NoPromise
    /\ seqResult = NoneOutcome
    /\ seqInvoked = << >>
    /\ seqOutcomes = << >>
    /\ seqPrev = NoReturn
    /\ allPc = "idle"
    /\ allDetectors = << >>
    /\ allPromises = << >>
    /\ allResult = << >>
    /\ anaPc = "idle"
    /\ anaOptions = NoOptions
    /\ anaValid = << >>
    /\ anaFallback = << >>
    /\ anaOut = NoneOutcome
    /\ patternResult = NoPromise
    /\ seqHeld = << >>
    /\ DetectorConstructed

\* No call in flight, and the pattern detector holds the catalogue it loads
CallsIdle ==
    /\ DetectionIdle
    /\ patterns = LoadedCatalogue

-----------------------------------------------------------------------------
(* ConfigurationManager, DetectionOrchestrator setters, detector setters *)

Clamp(x, lo, hi) == Max(lo, Min(hi, x))

\* Math.max(0, Math.min(100, threshold)) taken as the fraction, not divided
NormalizedThresholdUndivided(threshold) ==
    (Clamp(threshold, 0, Pct(100)) * FracScale) \div PctScale

\* const normalizedThreshold = Math.max(0, Math.min(100, threshold)) / 100
NormalizedThreshold(threshold) ==
    (Clamp(threshold, 0, Pct(100)) * FracScale) \div (100 * PctScale)

\* detector.setMinConfidence(minConfidence) of the three built-in detectors
WithMinConfidence(inst, minConf) ==
    [inst EXCEPT !.minConfidence = Clamp(minConf, 0, FracScale)]

\* DetectorRegistry.updateAllDetectorThresholds
UpdateAllDetectorThresholds(threshold) ==
    [n \in DOMAIN instances |-> WithMinConfidence(instances[n], threshold)]

\* ConfigurationManager.setConfidenceThreshold: the orchestrator clamps the
\* value itself, the registry pushes the normalized value to every detector.
SetConfidenceThreshold(threshold) ==
    /\ confidenceThreshold' = Clamp(threshold, 0, Pct(100))
    /\ instances' = UpdateAllDetectorThresholds(NormalizedThreshold(threshold))
    /\ lastOp' = [op |-> "setConfidenceThreshold", threshold |-> threshold]
    /\ UNCHANGED <<registeredDetectors, detectionOrder, enabledPatternLanguages, callVars>>

\* getDetector(name).setMinConfidence(minConf), called on one detector
SetMinConfidence(name, minConf) ==
    /\ RegistryHas(name)
    /\ instances' = [instances EXCEPT ![name] = WithMinConfidence(@, minConf)]
    /\ lastOp' = [op |-> "setMinConfidence", name |-> name, minConfidence |-> minConf]
    /\ UNCHANGED <<registeredDetectors, detectionOrder, configVars, callVars>>

\* DetectionOrchestrator.setEnabledPatternLanguages
SetEnabledPatternLanguages(langs) ==
    /\ enabledPatternLanguages' = langs
    /\ instances' = IF RegistryHas(PatternName)
                    THEN [instances EXCEPT ![PatternName].enabledLanguages = langs]
                    ELSE instances
    /\ lastOp' = [op |-> "setEnabledPatternLanguages", languages |-> langs]
    /\ UNCHANGED <<registeredDetectors, detectionOrder, confidenceThreshold, callVars>>

\* JavaScript values of a configuration object (undefined is Undefined)
JsNull == [kind |-> "null"]

JsNumber(n) == [kind |-> "number", value |-> n]

JsString(t) == [kind |-> "string", text |-> t]

JsArray(items) == [kind |-> "array", items |-> items]

\* An object: its own properties in insertion order
JsObject(entries) == [kind |-> "object", entries |-> entries]

Entry(key, value) == [key |-> key, value |-> value]

\* config.key: the property's value, undefined when there is none
Field(object, key) ==
    IF object.kind = "object" /\ \E i \in 1..Len(object.entries) : object.entries[i].key = key
    THEN object.entries[CHOOSE i \in 1..Len(object.entries) : object.entries[i].key = key].value
    ELSE Undefined

\* detector.isConfigurable && detector.isConfigurable(): the ML and the
\* pattern detector implement it, the highlight.js detector does not.
IsConfigurable(name) == name \in {VSCodeName, PatternName}

\* detector.setConfiguration(config) of the ML and the pattern detector:
\* reading a property of null or undefined throws a TypeError.
DetectorSetConfiguration(name, inst, payload) ==
    IF payload.kind \in {"null", "undefined"}
    THEN [threw |-> TRUE, inst |-> inst]
    ELSE LET languages == Field(payload, "enabledLanguages")
             minConf == Field(payload, "minConfidence")
             inst1 == IF name = PatternName /\ languages.kind = "array"
                      THEN [inst EXCEPT !.enabledLanguages = Range(languages.items)]
                      ELSE inst
             inst2 == IF minConf.kind = "number"
                      THEN WithMinConfidence(inst1, minConf.value)
                      ELSE inst1
         IN  [threw |-> FALSE, inst |-> inst2]

\* ConfigurationManager.applyDetectorConfigurations: the forEach over
\* Object.entries(detectorConfigs), which an exception leaves at once.
RECURSIVE ApplyDetectorConfigurations(_, _)
ApplyDetectorConfigurations(state, entries) ==
    IF entries = << >> THEN state
    ELSE LET name == Head(entries).key
         IN  IF name \in DOMAIN state.instances /\ IsConfigurable(name)
             THEN LET set == DetectorSetConfiguration(name, state.instances[name],
                                                      Head(entries).value)
                  IN  IF set.threw THEN [state EXCEPT !.threw = TRUE]
                      ELSE ApplyDetectorConfigurations(
                               [state EXCEPT !.instances[name] = set.inst], Tail(entries))
             ELSE ApplyDetectorConfigurations(state, Tail(entries))

\* The configuration the engine holds
CurrentConfiguration ==
    [order |-> detectionOrder, threshold |-> confidenceThreshold,
     languages |-> enabledPatternLanguages, instances |-> instances, threw |-> FALSE]

\* ConfigurationManager.setConfiguration(config), statement by statement:
\* what the engine holds when the call returns or throws.
ApplyConfiguration(config) ==
    LET order == Field(config, "detectionOrder")
        threshold == Field(config, "confidenceThreshold")
        languages == Field(config, "enabledPatternLanguages")
        detectorConfigs == Field(config, "detectorConfigs")
        s0 == CurrentConfiguration
        s1 == IF order.kind = "array"
              THEN [s0 EXCEPT !.order = ValidOrder(order.items)]
              ELSE s0
        s2 == IF threshold.kind = "number"
              THEN [s1 EXCEPT !.threshold = Clamp(threshold.value, 0, Pct(100)),
                              !.instances = UpdateAllDetectorThresholds(
                                                NormalizedThreshold(threshold.value))]
              ELSE s1
        s3 == IF languages.kind = "array"
              THEN [s2 EXCEPT !.languages = Range(languages.items),
                              !.instances =
                                  IF PatternName \in DOMAIN s2.instances
                                  THEN [s2.instances EXCEPT ![PatternName].enabledLanguages =
                                                                Range(languages.items)]
                                  ELSE s2.instances]
              ELSE s2
    IN  IF detectorConfigs.kind = "object"
        THEN ApplyDetectorConfigurations(s3, detectorConfigs.entries)
        ELSE s3

\* The engine takes the configuration that a call has built
Install(state) ==
    /\ detectionOrder' = state.order
    /\ confidenceThreshold' = state.threshold
    /\ enabledPatternLanguages' = state.languages
    /\ instances' = state.instances

\* ConfigurationManager.setConfiguration(config) is called
SetConfiguration(config) ==
    /\ Install(ApplyConfiguration(config))
    /\ lastOp' = [op |-> "setConfiguration", config |-> config,
                  threw |-> ApplyConfiguration(config).threw]
    /\ UNCHANGED <<registeredDetectors, callVars>>

\* detector.getAvailableLanguages(): the two adapters list the languages of
\* their classifier, the pattern detector its catalogue.
AvailableLanguagesOf(name) ==
    IF name = PatternName THEN Range(PatternLanguages)
    ELSE IF name = CustomName THEN Languages
    ELSE Languages \cup {"gamma", "delta", "epsilon"}

\* DetectorRegistry.getAvailableLanguages
GetAvailableLanguages(state) == UNION {AvailableLanguagesOf(n) : n \in DOMAIN state.instances}

\* DetectorRegistry.isValid
RegistryIsValid(state) == Cardinality(DOMAIN state.instances) > 0 /\ Len(state.order) > 0

\* DetectionOrchestrator.isConfigurationValid
IsConfigurationValid(state) ==
    RegistryIsValid(state) /\ state.threshold >= 0 /\ state.threshold <= Pct(100)

Message(condition, text) == IF condition THEN <<text>> ELSE << >>

\* ConfigurationManager.validateConfiguration on what the engine holds
ValidateConfiguration(state) ==
    LET enabled == Len(state.order)
        available == Cardinality(DOMAIN state.instances)
        issues ==
            Message(~IsConfigurationValid(state), "Orchestrator configuration is invalid")
            \o Message(~RegistryIsValid(state), "Detector registry is invalid")
            \o Message(enabled = 0, "No detectors are enabled")
        warnings ==
            Message(state.threshold < Pct(10), "Very low confidence threshold")
            \o Message(state.threshold >= Pct(10) /\ state.threshold > Pct(90),
                       "Very high confidence threshold")
            \o Message(state.languages = {} /\ Includes(state.order, PatternName),
                       "Pattern matching detector is enabled but no languages are configured")
            \o Message(Cardinality(GetAvailableLanguages(state)) < 5,
                       "Limited language support detected")
        recommendations ==
            Message(enabled = 1, "Consider enabling multiple detectors")
            \o Message(enabled < available, "Consider enabling more detectors")
    IN  [isValid |-> Len(issues) = 0, issues |-> issues, warnings |-> warnings,
         recommendations |-> recommendations]

\* ConfigurationManager.validateConfiguration() is called
Validate ==
    /\ lastOp' = [op |-> "validateConfiguration",
                  result |-> ValidateConfiguration(CurrentConfiguration)]
    /\ UNCHANGED <<registryVars, configVars, callVars>>

\* A configuration string: a JSON text of a value, or text that is not JSON
NotJson == [kind |-> "garbage"]

JsonText(value) == [kind |-> "json", value |-> value]

\* JSON.parse(configString): the value, or a SyntaxError
JsonParse(configString) ==
    IF configString.kind = "json" THEN [threw |-> FALSE, value |-> configString.value]
    ELSE [threw |-> TRUE]

\* The result of an import whose payload was applied, with success fixed to true
ImportResultAlwaysSuccess(validation) ==
    [success |-> TRUE,
     errors |-> IF validation.isValid THEN << >> ELSE validation.issues,
     warnings |-> validation.warnings]

\* The result of an import whose payload was applied: the issues of the
\* validation are the errors, success is errors.length === 0.
ImportResult(validation) ==
    LET errors == IF validation.isValid THEN << >> ELSE validation.issues
    IN  [success |-> Len(errors) = 0, errors |-> errors, warnings |-> validation.warnings]

\* ConfigurationManager.importConfiguration(configString): what the engine
\* holds afterwards, and the returned object.
ImportOutcome(configString) ==
    LET parsed == JsonParse(configString)
    IN  IF parsed.threw
        THEN [state |-> CurrentConfiguration,
              result |-> [success |-> FALSE,
                          errors |-> <<"Failed to parse configuration">>,
                          warnings |-> << >>]]
        ELSE IF parsed.value.kind \notin {"object", "array"}
        THEN [state |-> CurrentConfiguration,
              result |-> [success |-> FALSE,
                          errors |-> <<"Configuration must be a valid object">>,
                          warnings |-> << >>]]
        ELSE LET applied == ApplyConfiguration(parsed.value)
             IN  IF applied.threw
                 THEN [state |-> applied,
                       result |-> [success |-> FALSE,
                                   errors |-> <<"Failed to parse configuration">>,
                                   warnings |-> << >>]]
                 ELSE [state |-> applied,
                       result |-> ImportResult(ValidateConfiguration(applied))]

\* ConfigurationManager.importConfiguration(configString) is called
ImportConfiguration(configString) ==
    /\ Install(ImportOutcome(configString).state)
    /\ lastOp' = [op |-> "importConfiguration", input |-> configString,
                  applyThrew |-> ImportOutcome(configString).state.threw,
                  result |-> ImportOutcome(configString).result]
    /\ UNCHANGED <<registeredDetectors, callVars>>

\* An array holding the members of a list that the model keeps as a set
ArrayOf(set) ==
    JsArray(CHOOSE items \in [1..Cardinality(set) -> set] : Range(items) = set)

\* DetectorRegistry.getRegistryInfo (the counts and the two name lists)
GetRegistryInfo ==
    JsObject(<<Entry("totalDetectors", JsNumber(Cardinality(DOMAIN instances))),
               Entry("enabledDetectors", JsNumber(Len(detectionOrder))),
               Entry("detectorNames", JsArray(registeredDetectors)),
               Entry("detectionOrder", JsArray(detectionOrder))>>)

\* DetectionOrchestrator.getPerformanceMetrics
GetPerformanceMetrics ==
    JsObject(<<Entry("availableDetectors", JsNumber(Cardinality(DOMAIN instances))),
               Entry("enabledDetectors", JsNumber(Len(detectionOrder))),
               Entry("confidenceThreshold", JsNumber(confidenceThreshold)),
               Entry("enabledLanguages", JsNumber(Cardinality(enabledPatternLanguages))),
               Entry("totalAvailableLanguages",
                     JsNumber(Cardinality(GetAvailableLanguages(CurrentConfiguration))))>>)

\* ConfigurationManager.getConfiguration
GetConfiguration ==
    JsObject(<<Entry("detectionOrder", JsArray(detectionOrder)),
               Entry("confidenceThreshold", JsNumber(confidenceThreshold)),
               Entry("enabledPatternLanguages", ArrayOf(enabledPatternLanguages)),
               Entry("registeredDetectors", JsArray(registeredDetectors)),
               Entry("registryInfo", GetRegistryInfo),
               Entry("performanceMetrics", GetPerformanceMetrics)>>)

\* JSON.stringify(value, null, 2): the text of the value; a property whose
\* value is undefined is left out (the numbers are finite, the arrays hold
\* strings).
RECURSIVE JsonStringify(_)
JsonStringify(value) ==
    IF value.kind = "object"
    THEN LET Defined(entry) == entry.value # Undefined
             kept == SelectSeq(value.entries, Defined)
         IN  JsonText(JsObject([i \in 1..Len(kept) |->
                                   Entry(kept[i].key, JsonStringify(kept[i].value).value)]))
    ELSE JsonText(value)

\* ConfigurationManager.exportConfiguration
ExportConfiguration == JsonStringify(GetConfiguration)

\* importConfiguration(exportConfiguration()) is called
ExportImport == ImportConfiguration(ExportConfiguration)

\* threshold / 100 of LanguageDetectionEngine.registerDefaultDetectors
PctToFrac(threshold) == (threshold * FracScale) \div (100 * PctScale)

RECURSIVE AppendAbsent(_, _)
AppendAbsent(order, names) ==
    IF names = << >> THEN order
    ELSE AppendAbsent(IF Includes(order, Head(names)) THEN order
                      ELSE Append(order, Head(names)), Tail(names))

\* new LanguageDetectionEngine(order, threshold, langs): the registry with
\* the order, the orchestrator with threshold and languages as given, then
\* the three default detectors registered with threshold / 100.
EngineInit(order, threshold, langs) ==
    /\ registeredDetectors = DefaultOrder
    /\ instances = [n \in Range(DefaultOrder) |->
                       NewInstance(n, PctToFrac(threshold), langs)]
    /\ detectionOrder = AppendAbsent(order, DefaultOrder)
    /\ confidenceThreshold = threshold
    /\ enabledPatternLanguages = langs

-----------------------------------------------------------------------------
(* The registry on its own: constructed with any initial order that names   *)
(* each detector once (registered later or never), then any sequence of     *)
(* register / unregister / setDetectionOrder / setDetectorEnabled.          *)

DefaultThreshold == Pct(70)

DefaultMinConfidence == Frac(700)

\* The thresholds of the detector instances handed to registerDetector: the
\* caller's detector comes as one of two instances.
RegistryMinConfidences(name) ==
    IF name = CustomName THEN {DefaultMinConfidence, Frac(300)} ELSE {DefaultMinConfidence}

InitRegistry ==
    /\ \E initialOrder \in SeqsUpTo(RegistryArgNames, MaxOrderLen) :
          NoDuplicates(initialOrder) /\ RegistryInit(initialOrder)
    /\ confidenceThreshold = DefaultThreshold
    /\ enabledPatternLanguages = {}
    /\ lastOp = NoOp
    /\ code = << >>
    /\ CallsIdle

NextRegistry ==
    \/ \E n \in RegistryNames :
          \E m \in RegistryMinConfidences(n) : RegisterDetector(n, m, {})
    \/ \E n \in RegistryArgNames : UnregisterDetector(n)
    \/ \E order \in SeqsUpTo(RegistryArgNames, MaxOrderLen) : SetDetectionOrder(order)
    \/ \E n \in RegistryArgNames, e \in BOOLEAN : SetDetectorEnabled(n, e)

SpecRegistry == InitRegistry /\ [][NextRegistry]_vars

-----------------------------------------------------------------------------
(* Registry claims *)

Registered == DOMAIN instances

\* C5: every name in getDetectionOrder() is the name of a currently
\* registered detector, in every state reachable from construction.
C5_OrderNamesRegistered == Range(detectionOrder) \subseteq Registered

\* The positions of arg that hold a registered name, and the k-th of them.
KeptPositions(arg, reg) == {j \in 1..Len(arg) : arg[j] \in reg}

KthKept(arg, reg, k) ==
    CHOOSE j \in KeptPositions(arg, reg) :
        Cardinality({i \in KeptPositions(arg, reg) : i <= j}) = k

IsRegisteredSubsequence(result, arg, reg) ==
    /\ Len(result) = Cardinality(KeptPositions(arg, reg))
    /\ \A k \in 1..Len(result) : result[k] = arg[KthKept(arg, reg, k)]

\* C6: setDetectionOrder(names) never fails and replaces the detection order
\* by exactly the subsequence of names that are registered, in the order
\* given; names previously in the order but not in the argument are removed,
\* and the set of registered detectors is untouched.
C6_SetOrderStep ==
    lastOp'.op = "setDetectionOrder" =>
        /\ IsRegisteredSubsequence(detectionOrder', lastOp'.order, Registered)
        /\ \A n \in Range(detectionOrder) \ Range(lastOp'.order) :
               n \notin Range(detectionOrder')
        /\ instances' = instances
        /\ registeredDetectors' = registeredDetectors

C6_SetOrderNeverFails ==
    \A order \in SeqsUpTo(RegistryArgNames, MaxOrderLen) : ENABLED SetDetectionOrder(order)

C6_SetOrderFiltersUnknown == [][C6_SetOrderStep]_vars /\ []C6_SetOrderNeverFails

\* C6 witness: setDetectionOrder([x, nonexistent, y]) with x and y registered
\* has just produced [x, y].
C6_Witness ==
    /\ lastOp.op = "setDetectionOrder"
    /\ lastOp.order = <<VSCodeName, "nonexistent", PatternName>>
    /\ {VSCodeName, PatternName} \subseteq Registered
    /\ detectionOrder = <<VSCodeName, PatternName>>

\* C10: each name occurs at most once in getDetectionOrder(), in every state
\* reachable by register / unregister / setDetectionOrder / setDetectorEnabled.
C10_OrderHasNoDuplicates == NoDuplicates(detectionOrder)

\* C11: unregistering removes the name from the registered set and from the
\* detection order, and registering a detector whose name is not in the
\* detection order (a registered detector that was disabled) leaves the name
\* out of the order.
C11_Step ==
    /\ lastOp'.op = "unregisterDetector" =>
          /\ lastOp'.name \notin DOMAIN instances'
          /\ lastOp'.name \notin Range(registeredDetectors')
          /\ lastOp'.name \notin Range(detectionOrder')
    /\ ( /\ lastOp'.op = "registerDetector"
         /\ lastOp'.name \notin Range(detectionOrder)
         /\ RegistryHas(lastOp'.name) ) =>
          lastOp'.name \notin Range(detectionOrder')

C11_ReRegisterDoesNotEnable == [][C11_Step]_vars

\* C21: isValid() is true exactly when at least one detector is registered
\* and at least one name is in the detection order, and whenever isValid() is
\* true getDetectorsInOrder() is non-empty.
C21_ValidMeansRunnable ==
    LET valid == RegistryIsValid([instances |-> instances, order |-> detectionOrder])
    IN  /\ valid <=> (Registered # {} /\ detectionOrder # << >>)
        /\ valid => GetDetectorsInOrder # << >>

\* The order without the name n
Others(order, n) == LET Other(x) == x # n IN SelectSeq(order, Other)

\* C23: registerDetector, unregisterDetector and setDetectorEnabled keep the
\* relative order of all other names; a name that was not in the order and
\* is added (by registration, or by enabling a registered name) is placed at
\* the end; re-registering a name that is in the order keeps the order as it
\* is and replaces the instance; enabling an unregistered or an enabled name
\* changes nothing.
C23_Step ==
    lastOp'.op \in {"registerDetector", "unregisterDetector", "setDetectorEnabled"} =>
        LET n == lastOp'.name
        IN  /\ Others(detectionOrder', n) = Others(detectionOrder, n)
            /\ lastOp'.op = "registerDetector" =>
                  /\ n \notin Range(detectionOrder) =>
                        detectionOrder' = Append(detectionOrder, n)
                  /\ n \in Range(detectionOrder) => detectionOrder' = detectionOrder
                  /\ instances'[n] = NewInstance(n, lastOp'.minConfidence, {})
                  /\ \A o \in Registered \ {n} : instances'[o] = instances[o]
            /\ (lastOp'.op = "setDetectorEnabled" /\ lastOp'.enabled) =>
                  /\ (n \in Registered /\ n \notin Range(detectionOrder)) =>
                        detectionOrder' = Append(detectionOrder, n)
                  /\ (n \notin Registered \/ n \in Range(detectionOrder)) =>
                        UNCHANGED registryVars
            /\ (lastOp'.op = "setDetectorEnabled" /\ ~lastOp'.enabled) =>
                  /\ n \notin Range(detectionOrder')
                  /\ UNCHANGED <<registeredDetectors, instances>>

C23_OthersKeepTheirOrder == [][C23_Step]_vars

\* C23 witness: a disabled detector has just been enabled and stands last,
\* behind the two others in the order they had.
C23_Witness ==
    /\ lastOp = [op |-> "setDetectorEnabled", name |-> VSCodeName, enabled |-> TRUE]
    /\ detectionOrder = <<PatternName, CustomName, VSCodeName>>
    /\ Registered = RegistryNames

-----------------------------------------------------------------------------
(* Sequential detection on every configuration the engine can be put in     *)
(* (within the bounds): any registered detectors, any order (it may name    *)
(* unregistered detectors and repeat names), thresholds and allow-lists.    *)

MaxSeqOrderLen == 3

Codes == {<< >>, <<" ", "\n">>, <<" ", "f", "\t">>}

RegisteredChoices ==
    {DefaultOrder, DefaultOrder \o <<CustomName>>, <<CustomName, PatternName>>}

GlobalThresholds == {Pct(50), Pct(70)}

MinConfidences == {Frac(300), Frac(703)}

OrchestratorLanguageSets == {{}, {"alpha"}}

PatternLanguageSets == {{}, {"beta"}}

\* The detector instances of a configuration: each built-in detector with
\* one of the thresholds, the pattern detector with one of the allow-lists.
InstanceChoices(names) ==
    {f \in [names -> [minConfidence : MinConfidences, enabledLanguages : PatternLanguageSets]] :
        \A n \in names :
            /\ n # PatternName => f[n].enabledLanguages = {}
            /\ n = CustomName => f[n].minConfidence = Frac(300)}

InitConfigured(registeredChoices) ==
    /\ registeredDetectors \in registeredChoices
    /\ instances \in InstanceChoices(Range(registeredDetectors))
    /\ confidenceThreshold \in GlobalThresholds
    /\ enabledPatternLanguages \in OrchestratorLanguageSets
    /\ lastOp = NoOp
    /\ code \in Codes
    /\ CallsIdle

InitSeq ==
    /\ InitConfigured(RegisteredChoices)
    /\ detectionOrder \in SeqsUpTo(DetectorNames, MaxSeqOrderLen)

NextSeq == SeqStart \/ SeqSettle \/ SeqFinish

SpecSeq == InitSeq /\ [][NextSeq]_vars

-----------------------------------------------------------------------------
(* Sequential detection claims *)

BuiltInNames == {VSCodeName, HighlightJsName, PatternName}

\* C1: a non-none result of detectLanguage has confidence >= the global
\* threshold and >= the producing detector's own threshold (0-1 scaled to
\* 0-100), for every code, order and setting of the thresholds.
C1_ResultMeetsBothThresholds ==
    (seqPc = "returned" /\ seqResult.kind = "result") =>
        /\ seqResult.confidence >= confidenceThreshold
        /\ seqResult.method \in BuiltInNames =>
              seqResult.confidence * FracScale >=
                  instances[seqResult.method].minConfidence * 100 * PctScale

AllWhitespace(c) == \A i \in 1..Len(c) : c[i] \in Whitespace

\* C2: for a code whose trim is empty, detectLanguage returns none and
\* invokes no detector, in every configuration.
C2_BlankCodeReturnsNoneUninvoked ==
    AllWhitespace(code) =>
        /\ seqPc \in {"idle", "returned"}
        /\ seqResult = NoneOutcome
        /\ seqInvoked = << >>

\* C2 witness: a call on a whitespace-only, non-empty code has returned while
\* the order holds a registered detector.
C2_Witness ==
    /\ seqPc = "returned"
    /\ Len(code) > 0
    /\ AllWhitespace(code)
    /\ \E n \in Range(detectionOrder) : n \in Registered

\* The detectors of the order that have an instance, by position
ExpectedCount == Cardinality(KeptPositions(detectionOrder, Registered))

ExpectedAt(k) == detectionOrder[KthKept(detectionOrder, Registered, k)]

\* A detector's settled value passes the orchestrator's acceptance test
Acceptable(name, settled) ==
    /\ settled.kind = "result"
    /\ settled.confidence >= confidenceThreshold
    /\ name = PatternName =>
          (enabledPatternLanguages = {} \/ settled.language \in enabledPatternLanguages)

\* C3: detectors are invoked one at a time in detection-order position, the
\* next one only after the previous one settled to none, an error or a
\* rejected result; the returned result is that of the earliest detector
\* whose result is acceptable; nothing after it is invoked; a registered
\* detector absent from the order is never invoked.
C3_SerialFirstMatch ==
    /\ Len(seqInvoked) <= ExpectedCount
    /\ \A k \in 1..Len(seqInvoked) : seqInvoked[k] = ExpectedAt(k)
    /\ Range(seqInvoked) \subseteq Range(detectionOrder)
    /\ Len(seqOutcomes) <= Len(seqInvoked)
    /\ Len(seqInvoked) <= Len(seqOutcomes) + 1
    /\ \A k \in 1..Len(seqOutcomes) :
          k < Len(seqInvoked) => ~Acceptable(seqInvoked[k], seqOutcomes[k])
    /\ seqPc = "awaiting" <=> Len(seqInvoked) = Len(seqOutcomes) + 1
    /\ (seqPc = "returned" /\ seqResult.kind = "result") =>
          /\ Len(seqOutcomes) = Len(seqInvoked)
          /\ seqResult = seqOutcomes[Len(seqOutcomes)]
          /\ Acceptable(seqInvoked[Len(seqInvoked)], seqResult)
    /\ (seqPc = "returned" /\ seqResult.kind = "none" /\ ~AllWhitespace(code)) =>
          /\ Len(seqInvoked) = ExpectedCount
          /\ \A k \in 1..Len(seqOutcomes) : ~Acceptable(seqInvoked[k], seqOutcomes[k])

\* C3 witness: the second detector of three in the order was accepted after
\* the first was rejected with a result, the third was never invoked, and a
\* registered detector outside the order was never invoked.
C3_Witness ==
    /\ seqPc = "returned"
    /\ seqResult.kind = "result"
    /\ Len(seqInvoked) = 2
    /\ seqOutcomes[1].kind = "result"
    /\ ExpectedCount = 3
    /\ NoDuplicates(detectionOrder)
    /\ \E n \in Registered : n \notin Range(detectionOrder)

\* C4: a detector that raises counts as none for that detector only: the
\* error never reaches the caller, and every later detector is still tried,
\* so a later acceptable result is still returned.
C4_ErrorsAreContained ==
    /\ seqResult.kind \in {"none", "result"}
    /\ \A k \in 1..Len(seqOutcomes) :
          seqOutcomes[k].kind = "throw" =>
              \/ Len(seqInvoked) > k
              \/ /\ k = ExpectedCount
                 /\ seqPc \in {"returned", "idle"}
                 /\ seqResult = NoneOutcome
    /\ (seqPc = "returned" /\ seqResult.kind = "none" /\ ~AllWhitespace(code)) =>
          Len(seqInvoked) = ExpectedCount

\* C4 witness: the first detector raised and the call returned the result of
\* a later one.
C4_Witness ==
    /\ seqPc = "returned"
    /\ seqResult.kind = "result"
    /\ Len(seqOutcomes) >= 2
    /\ seqOutcomes[1].kind = "throw"

-----------------------------------------------------------------------------
(* Exhaustive detection on every configuration (within the bounds); the     *)
(* registration order varies, the detection order is one of a few.          *)

AllRegisteredChoices ==
    {<< >>, DefaultOrder, <<VSCodeName, PatternName, HighlightJsName>>,
     <<CustomName, PatternName>>, DefaultOrder \o <<CustomName>>}

AllOrderChoices == {<<PatternName>>, DefaultOrder}

InitAll ==
    /\ InitConfigured(AllRegisteredChoices)
    /\ detectionOrder \in AllOrderChoices

NextAll ==
    \/ AllStart
    \/ \E i \in 1..Cardinality(DetectorNames) : AllSettle(i)
    \/ AllJoin
    \/ AllFinish

SpecAll == InitAll /\ [][NextAll]_vars

\* Every detector call settles eventually and the event loop runs the
\* continuation of a settled Promise.allSettled.
AllFairness ==
    /\ \A i \in 1..Cardinality(DetectorNames) : WF_vars(AllSettle(i))
    /\ WF_vars(AllJoin)

\* The fair behaviours are explored from the configurations with the default
\* global threshold and no allow-list.
InitAllFair ==
    /\ InitAll
    /\ confidenceThreshold = DefaultThreshold
    /\ enabledPatternLanguages = {}
    /\ detectionOrder = <<PatternName>>

SpecAllFair == InitAllFair /\ [][NextAll]_vars /\ AllFairness

-----------------------------------------------------------------------------
(* Analytical detection: the engine with its three detectors and a          *)
(* caller-registered one, or with two detectors, every option combination.  *)

AnalysisRegisteredChoices == {DefaultOrder \o <<CustomName>>, <<CustomName, PatternName>>}

AnalysisOrderChoices == {DefaultOrder, <<CustomName, VSCodeName>>}

AnalysisOptions ==
    [includeAllResults : {Undefined, Given(FALSE)},
     includeFallbacks : {Undefined, Given(TRUE)},
     minConfidence : {Undefined, Given(Pct(30))}]

InitAnalysis ==
    /\ InitConfigured(AnalysisRegisteredChoices)
    /\ \A n \in DOMAIN instances : instances[n] = NewInstance(n, Frac(300), {})
    /\ enabledPatternLanguages = {}
    /\ detectionOrder \in AnalysisOrderChoices

NextAnalysis ==
    \/ \E options \in AnalysisOptions : AnaStart(options)
    \/ \E i \in 1..Cardinality(DetectorNames) : AllSettle(i)
    \/ AllJoin
    \/ AnaPartition
    \/ SeqSettle
    \/ AnaFinish
    \/ AnaReturn

SpecAnalysis == InitAnalysis /\ [][NextAnalysis]_vars

-----------------------------------------------------------------------------
(* The thresholds of a constructed engine under the configuration           *)
(* operations.                                                              *)

ThresholdArgs == {Pct(0 - 10), Pct(70), Pct(150)}

MinConfidenceArgs == {Frac(300), Frac(1200)}

InitConfig ==
    /\ EngineInit(DefaultOrder, DefaultThreshold, {})
    /\ lastOp = NoOp
    /\ code = << >>
    /\ CallsIdle

NextConfig ==
    \/ \E t \in ThresholdArgs : SetConfidenceThreshold(t)
    \/ \E n \in DetectorNames, m \in MinConfidenceArgs : SetMinConfidence(n, m)
    \/ \E m \in MinConfidenceArgs : RegisterDetector(CustomName, m, {})
    \/ UnregisterDetector(CustomName)
    \/ \E e \in BOOLEAN : SetDetectorEnabled(PatternName, e)
    \/ \E langs \in OrchestratorLanguageSets : SetEnabledPatternLanguages(langs)

SpecConfig == InitConfig /\ [][NextConfig]_vars

-----------------------------------------------------------------------------
(* Bulk configuration, validation and import on an engine constructed with  *)
(* any threshold (the constructors store it as given).                      *)

ConstructorThresholds == {DefaultThreshold, Pct(150)}

ConfigObject(order, threshold, languages, detectorConfigs) ==
    LET entries == <<Entry("detectionOrder", order), Entry("confidenceThreshold", threshold),
                     Entry("enabledPatternLanguages", languages),
                     Entry("detectorConfigs", detectorConfigs)>>
        Present(entry) == entry.value # Undefined
    IN  JsObject(SelectSeq(entries, Present))

PatternPayload ==
    JsObject(<<Entry("minConfidence", JsNumber(Frac(300))),
               Entry("enabledLanguages", JsArray(<<"alpha">>))>>)

ThrowingConfig ==
    ConfigObject(Undefined, JsNumber(Pct(95)), Undefined,
                 JsObject(<<Entry(VSCodeName, JsObject(<<Entry("minConfidence",
                                                              JsNumber(Frac(1200)))>>)),
                            Entry(PatternName, JsNull)>>))

ReorderConfig ==
    ConfigObject(JsArray(<<PatternName, "nonexistent", VSCodeName>>),
                 Undefined, Undefined, Undefined)

EmptyOrderConfig == ConfigObject(JsArray(<< >>), Undefined, Undefined, Undefined)

ThresholdAndLanguagesConfig ==
    ConfigObject(Undefined, JsNumber(Pct(150)), JsArray(<<"beta">>), Undefined)

BulkConfigs ==
    {JsObject(<< >>),
     ReorderConfig,
     EmptyOrderConfig,
     ConfigObject(Undefined, JsNumber(Pct(5)), Undefined, Undefined),
     ThresholdAndLanguagesConfig,
     ConfigObject(Undefined, Undefined, JsArray(<< >>), Undefined),
     ConfigObject(Undefined, Undefined, Undefined,
                  JsObject(<<Entry(PatternName, PatternPayload)>>)),
     ThrowingConfig,
     ConfigObject(JsString("pattern-matching"), JsString("50"), JsNull, JsNull),
     ConfigObject(Undefined, Undefined, Undefined,
                  JsObject(<<Entry("nonexistent", JsNull), Entry(HighlightJsName, JsNull)>>))}

ConfigStrings ==
    {NotJson, JsonText(JsNull), JsonText(JsNumber(42)), JsonText(JsArray(<< >>)),
     JsonText(ReorderConfig), JsonText(EmptyOrderConfig),
     JsonText(ThresholdAndLanguagesConfig), JsonText(ThrowingConfig)}

InitBulk ==
    /\ \E threshold \in ConstructorThresholds : EngineInit(DefaultOrder, threshold, {})
    /\ lastOp = NoOp
    /\ code = << >>
    /\ CallsIdle

NextBulk ==
    \/ \E config \in BulkConfigs : SetConfiguration(config)
    \/ Validate
    \/ \E configString \in ConfigStrings : ImportConfiguration(configString)
    \/ ExportImport
    \/ \E n \in BuiltInNames : UnregisterDetector(n)
    \/ \E n \in {VSCodeName, PatternName} : SetDetectorEnabled(n, FALSE)

SpecBulk == InitBulk /\ [][NextBulk]_vars

-----------------------------------------------------------------------------
(* A sequential detection call on the default engine, with configuration    *)
(* operations running while the call is suspended on a detector.            *)

InterleavedCode == <<" ", "f", "\t">>

InterleavedThresholds == {Pct(30), Pct(90)}

InterleavedLanguageSets == {{"beta"}}

InterleavedOrders == {<<PatternName, VSCodeName>>}

InitInterleaved ==
    /\ EngineInit(DefaultOrder, DefaultThreshold, {})
    /\ lastOp = NoOp
    /\ code = InterleavedCode
    /\ CallsIdle

\* An operation the user of the engine calls while detectLanguage is suspended
WhileSuspended ==
    /\ seqPc = "awaiting"
    /\ \/ \E n \in {VSCodeName, PatternName} : SetDetectorEnabled(n, FALSE)
       \/ \E n \in {HighlightJsName, PatternName} : UnregisterDetector(n)
       \/ \E order \in InterleavedOrders : SetDetectionOrder(order)
       \/ \E t \in InterleavedThresholds : SetConfidenceThreshold(t)
       \/ \E langs \in InterleavedLanguageSets : SetEnabledPatternLanguages(langs)

NextInterleaved == SeqStart \/ SeqSettle \/ WhileSuspended

SpecInterleaved == InitInterleaved /\ [][NextInterleaved]_vars

-----------------------------------------------------------------------------
(* The ML detector on its own: callers that call detectLanguage(code) or    *)
(* initialize() concurrently and in succession, and dispose() at any time.  *)

LazyCodes == {<<" ", "\n">>, <<" ", "f", "\t">>}

InitLazy ==
    /\ EngineInit(DefaultOrder, DefaultThreshold, {})
    /\ lastOp = NoOp
    /\ code \in LazyCodes
    /\ CallsIdle

NextLazy ==
    \/ \E c \in Callers : VSCodeDetectLanguage(c)
    \/ \E c \in Callers : VSCodeInitialize(c)
    \/ \E c \in Callers : VSCodeResume(c)
    \/ \E c \in Callers : VSCodeModelSettles(c)
    \/ VSCodeDispose

SpecLazy == InitLazy /\ [][NextLazy]_vars

-----------------------------------------------------------------------------
(* The pattern detector called directly: any of a few catalogues and code   *)
(* strings, its own threshold and its allow-list set between the calls.     *)

\* Only keywords: alpha is the definition with keywords [foo, bar]
KeywordsOnlyCatalogue ==
    [l \in Languages |->
        IF l = "alpha"
        THEN LanguagePattern(<<"foo", "bar">>, << >>, << >>, << >>, NoComments)
        ELSE LanguagePattern(<<"def">>, << >>, << >>, << >>, NoComments)]

\* Two definitions that score alike, one with a regex that does not compile
TiedCatalogue ==
    [l \in Languages |->
        LanguagePattern(<<"foo", "bar", "def">>, <<TokenRegex("foo"), InvalidRegex>>,
                        << >>, <<"len">>, NoComments)]

ThirtyKeywords ==
    <<"k01", "k02", "k03", "k04", "k05", "k06", "k07", "k08", "k09", "k10",
      "k11", "k12", "k13", "k14", "k15", "k16", "k17", "k18", "k19", "k20",
      "k21", "k22", "k23", "k24", "k25", "k26", "k27", "k28", "k29", "k30">>

TwelveKeywords == SubSeq(ThirtyKeywords, 1, 12)

ThirtyImports ==
    <<"i01", "i02", "i03", "i04", "i05", "i06", "i07", "i08", "i09", "i10",
      "i11", "i12", "i13", "i14", "i15", "i16", "i17", "i18", "i19", "i20",
      "i21", "i22", "i23", "i24", "i25", "i26", "i27", "i28", "i29", "i30">>

TwentyBuiltins ==
    <<"b01", "b02", "b03", "b04", "b05", "b06", "b07", "b08", "b09", "b10",
      "b11", "b12", "b13", "b14", "b15", "b16", "b17", "b18", "b19", "b20">>

NineRegexes ==
    <<TokenRegex("r1"), TokenRegex("r2"), TokenRegex("r3"), TokenRegex("r4"),
      TokenRegex("r5"), TokenRegex("r6"), TokenRegex("r7"), TokenRegex("r8"),
      TokenRegex("r9")>>

\* Lists longer than the caps of the scoring
LongCatalogue ==
    [l \in Languages |->
        IF l = "alpha"
        THEN LanguagePattern(ThirtyKeywords, NineRegexes, ThirtyImports, TwentyBuiltins,
                             NoComments)
        ELSE LanguagePattern(TwelveKeywords, << >>, << >>, << >>, NoComments)]

PatternCatalogues == {LoadedCatalogue, KeywordsOnlyCatalogue, TiedCatalogue, LongCatalogue}

TenKeywords ==
    <<"k01", " ", "k02", " ", "k03", " ", "k04", " ", "k05", " ", "k06", " ",
      "k07", " ", "k08", " ", "k09", " ", "k10">>

ElevenKeywords == TenKeywords \o <<"\n", "k11">>

TwelveKeywordsCode == ElevenKeywords \o <<"\n", "k12">>

FiveImports ==
    <<"i01", " ", "i02", " ", "i03", " ", "i04", " ", "i05", " ", "b01", " ",
      "b02", " ", "b03", " ", "r1">>

EighthRegex == <<"r8">>

NinthRegex == <<"r9", " ", "b07">>

FooBarFoo == <<"foo", " ", "bar", " ", "foo">>

PatternCodes ==
    {<< >>, <<" ", "\n">>, FooBarFoo, <<"foo">>, <<"//", " ", "foo">>,
     <<"def", "\n", "\t", "#", "bar">>, <<"use", " ", "len", "/*", "foo", "*/">>,
     TenKeywords, ElevenKeywords, TwelveKeywordsCode, FiveImports, EighthRegex, NinthRegex}

PatternMinConfidences == {0, Frac(300), Frac(400), Frac(500), Frac(1000)}

InitPattern ==
    /\ \E langs \in SUBSET Languages : EngineInit(DefaultOrder, DefaultThreshold, langs)
    /\ lastOp = NoOp
    /\ code \in PatternCodes
    /\ DetectionIdle
    /\ patterns \in PatternCatalogues

NextPattern ==
    \/ PatternDetectLanguage
    \/ \E minConf \in PatternMinConfidences : SetMinConfidence(PatternName, minConf)
    \/ \E langs \in SUBSET Languages : SetEnabledPatternLanguages(langs)

SpecPattern == InitPattern /\ [][NextPattern]_vars

-----------------------------------------------------------------------------
(* Exhaustive detection claims *)

\* The positions of allDetectors whose promise settled to a result
ResultPositions ==
    {i \in 1..Len(allPromises) :
        allPromises[i].state = "settled" /\ allPromises[i].value.kind = "result"}

SortedByConfidenceDesc(list) ==
    \A k, j \in 1..Len(list) : k < j => list[k].confidence >= list[j].confidence

\* C7: detectWithAllMethods returns exactly one entry for each registered
\* detector that returned a non-none result without error, whether or not the
\* detector is in the detection order or reaches the global threshold, and
\* the list is sorted by non-increasing confidence.
C7_AllResultsRanked ==
    allPc = "returned" =>
        /\ Range(allDetectors) = Registered
        /\ NoDuplicates(allDetectors)
        /\ Len(allResult) = Cardinality(ResultPositions)
        /\ \A i \in ResultPositions :
              \E k \in 1..Len(allResult) : allResult[k] = allPromises[i].value
        /\ SortedByConfidenceDesc(allResult)

\* C7 witness: detectors registered in the order that answers 90, 40, 70 give
\* the list 90, 70, 40; one of them is outside the detection order and one
\* is below the global threshold.
C7_Witness ==
    /\ allPc = "returned"
    /\ Len(allPromises) = 3
    /\ \A i \in 1..3 : allPromises[i].value.kind = "result"
    /\ <<allPromises[1].value.confidence, allPromises[2].value.confidence,
         allPromises[3].value.confidence>> = <<Pct(90), Pct(40), Pct(70)>>
    /\ <<allResult[1].confidence, allResult[2].confidence, allResult[3].confidence>>
          = <<Pct(90), Pct(70), Pct(40)>>
    /\ \E k \in 1..3 : allResult[k].method \notin Range(detectionOrder)
    /\ \E k \in 1..3 : allResult[k].confidence < confidenceThreshold

\* Every detector's call has been started as soon as the call is suspended,
\* and a started call can settle whatever the others do.
AllStartedIndependently ==
    allPc = "awaiting" =>
        /\ Range(allDetectors) = Registered
        /\ \A i \in 1..Len(allPromises) :
              /\ allPromises[i].state \in {"pending", "settled"}
              /\ allPromises[i].state = "pending" => ENABLED AllSettle(i)

\* A detector that raised keeps no other detector's result out of the list.
AllOthersKept ==
    allPc = "returned" =>
        \A i \in ResultPositions :
            \E k \in 1..Len(allResult) : allResult[k] = allPromises[i].value

\* C8: exhaustive detection starts every registered detector's call without
\* waiting for another to settle, a detector that raises or is slow does not
\* keep the other results out of the returned list, and when every call
\* settles the call returns.
C8_JoinAllSettled ==
    /\ []AllStartedIndependently
    /\ []AllOthersKept
    /\ (allPc = "awaiting") ~> (allPc = "returned")

\* C8 witness: the call returned a list with a result although another
\* detector raised.
C8_Witness ==
    /\ allPc = "returned"
    /\ Len(allResult) >= 1
    /\ \E i \in 1..Len(allPromises) : allPromises[i].value.kind = "throw"

-----------------------------------------------------------------------------
(* Analytical detection claims *)

\* Two results with the same detector name, language and confidence
SameEntry(a, b) ==
    a.method = b.method /\ a.language = b.language /\ a.confidence = b.confidence

\* C12: the alternatives are the accepted results minus the primary: when
\* primary is not none, alternatives has no entry with the same detector
\* name, language and confidence as primary, and every other accepted result
\* is in alternatives.
C12_AlternativesExcludePrimary ==
    (anaPc = "returned" /\ anaOut.primary # NoneOutcome) =>
        /\ \A k \in 1..Len(anaOut.alternatives) :
              ~SameEntry(anaOut.alternatives[k].obj, anaOut.primary.obj)
        /\ \A k \in 1..Len(anaValid) :
              ~SameEntry(anaValid[k].obj, anaOut.primary.obj) =>
                  anaValid[k] \in Range(anaOut.alternatives)

\* The number of accepted results of a language, and the rank of its first
Occurrences(language) ==
    Cardinality({k \in 1..Len(anaValid) : anaValid[k].obj.language = language})

FirstRank(language) ==
    CHOOSE k \in 1..Len(anaValid) :
        /\ anaValid[k].obj.language = language
        /\ \A j \in 1..(k - 1) : anaValid[j].obj.language # language

AcceptedLanguages == {anaValid[k].obj.language : k \in 1..Len(anaValid)}

ExhaustiveRefs == {Ref("detectWithAllMethods", allResult[k]) : k \in 1..Len(allResult)}

\* C14 as stated: every exhaustive result at or above the threshold is
\* accepted, every one below it is returned in fallbacks, the two are
\* disjoint and together hold every exhaustive result.
C14_PartitionByThreshold ==
    anaPc = "returned" =>
        /\ \A ref \in ExhaustiveRefs :
              /\ ref.obj.confidence >= anaOptions.minConfidence => ref \in Range(anaValid)
              /\ ref.obj.confidence < anaOptions.minConfidence =>
                    ref \in Range(anaOut.fallbacks)
        /\ Range(anaValid) \cap Range(anaOut.fallbacks) = {}
        /\ Range(anaValid) \cup Range(anaOut.fallbacks) = ExhaustiveRefs

\* C14 amended: the accepted results are exactly the exhaustive results at
\* or above the threshold (options.minConfidence, by default the global
\* threshold); fallbacks holds exactly the ones below it when
\* options.includeFallbacks is set and is empty otherwise (the default);
\* accepted and fallbacks are disjoint, and with includeFallbacks set they
\* hold every exhaustive result.
C14_PartitionWhenRequested ==
    anaPc = "returned" =>
        /\ Range(anaValid) =
              {ref \in ExhaustiveRefs : ref.obj.confidence >= anaOptions.minConfidence}
        /\ Len(anaValid) = Cardinality(Range(anaValid))
        /\ anaOut.successfulDetectors = Len(anaValid)
        /\ Range(anaOut.fallbacks) =
              IF anaOptions.includeFallbacks
              THEN {ref \in ExhaustiveRefs : ref.obj.confidence < anaOptions.minConfidence}
              ELSE {}
        /\ Len(anaOut.fallbacks) = Cardinality(Range(anaOut.fallbacks))
        /\ Range(anaValid) \cap Range(anaOut.fallbacks) = {}
        /\ anaOptions.includeFallbacks =>
              Range(anaValid) \cup Range(anaOut.fallbacks) = ExhaustiveRefs

\* C14 witness: with includeFallbacks set, a result exactly at the threshold
\* was accepted and a result below it is in fallbacks.
C14_Witness ==
    /\ anaPc = "returned"
    /\ anaOptions.includeFallbacks
    /\ \E k \in 1..Len(anaValid) : anaValid[k].obj.confidence = anaOptions.minConfidence
    /\ anaOut.fallbacks # << >>

-----------------------------------------------------------------------------
(* Threshold claims *)

\* x is t clamped to lo..hi
IsClamped(x, t, lo, hi) ==
    /\ lo <= x /\ x <= hi
    /\ (lo <= t /\ t <= hi) => x = t
    /\ t < lo => x = lo
    /\ t > hi => x = hi

\* C9: after ConfigurationManager.setConfidenceThreshold(t) the global
\* threshold is t clamped to 0..100 and every registered detector's own
\* threshold is that value / 100; an individual setMinConfidence changes only
\* that detector's threshold, and every other operation (bar registering a
\* new instance under the name) leaves all thresholds as they are.
C9_ThresholdStep ==
    /\ lastOp'.op = "setConfidenceThreshold" =>
          /\ IsClamped(confidenceThreshold', lastOp'.threshold, 0, Pct(100))
          /\ DOMAIN instances' = DOMAIN instances
          /\ \A n \in DOMAIN instances' :
                instances'[n].minConfidence * 100 * PctScale =
                    confidenceThreshold' * FracScale
    /\ lastOp'.op = "setMinConfidence" =>
          /\ confidenceThreshold' = confidenceThreshold
          /\ DOMAIN instances' = DOMAIN instances
          /\ IsClamped(instances'[lastOp'.name].minConfidence,
                       lastOp'.minConfidence, 0, FracScale)
          /\ \A n \in DOMAIN instances' \ {lastOp'.name} : instances'[n] = instances[n]
    /\ lastOp'.op \notin {"setConfidenceThreshold", "setMinConfidence"} =>
          /\ confidenceThreshold' = confidenceThreshold
          /\ \A n \in (DOMAIN instances) \cap (DOMAIN instances') :
                \/ lastOp'.op = "registerDetector" /\ lastOp'.name = n
                \/ instances'[n].minConfidence = instances[n].minConfidence

C22_ThresholdsInRange ==
    /\ 0 <= confidenceThreshold /\ confidenceThreshold <= Pct(100)
    /\ \A n \in DOMAIN instances :
          0 <= instances[n].minConfidence /\ instances[n].minConfidence <= FracScale

-----------------------------------------------------------------------------
(* Configuration manager claims *)

\* C15: setConfiguration applies the object atomically and leaves absent
\* fields untouched: an absent detection order, global threshold or
\* allow-list leaves that state unchanged, the detectors are unchanged when
\* nothing that reaches them is present, and either all present fields are
\* applied or, when applying one of them fails, none is.
C15_Step ==
    lastOp'.op = "setConfiguration" =>
        LET config == lastOp'.config
            Absent(key) == Field(config, key) = Undefined
            order == Field(config, "detectionOrder")
            threshold == Field(config, "confidenceThreshold")
            languages == Field(config, "enabledPatternLanguages")
        IN  /\ Absent("detectionOrder") => detectionOrder' = detectionOrder
            /\ Absent("confidenceThreshold") => confidenceThreshold' = confidenceThreshold
            /\ Absent("enabledPatternLanguages") =>
                  enabledPatternLanguages' = enabledPatternLanguages
            /\ ( /\ Absent("detectorConfigs")
                 /\ Absent("confidenceThreshold")
                 /\ Absent("enabledPatternLanguages") ) => instances' = instances
            /\ lastOp'.threw =>
                  UNCHANGED <<detectionOrder, confidenceThreshold, enabledPatternLanguages,
                              instances>>
            /\ ~lastOp'.threw =>
                  /\ order.kind = "array" =>
                        IsRegisteredSubsequence(detectionOrder', order.items, Registered)
                  /\ threshold.kind = "number" =>
                        IsClamped(confidenceThreshold', threshold.value, 0, Pct(100))
                  /\ languages.kind = "array" =>
                        enabledPatternLanguages' = Range(languages.items)

C15_BulkConfigurationAtomic == [][C15_Step]_vars

\* C16: validateConfiguration separates blocking from non-blocking findings:
\* isValid is false exactly when issues is non-empty; an empty detection
\* order or an empty registry always produces an issue; a threshold below 10
\* or above 90 and the pattern detector enabled with an empty allow-list
\* produce warnings only, exactly one enabled detector and fewer enabled than
\* registered produce recommendations only, so none of them changes isValid.
C16_ValidationSeparatesFindings ==
    lastOp.op = "validateConfiguration" =>
        LET result == lastOp.result
            blocking == detectionOrder = << >> \/ Registered = {}
        IN  /\ result.isValid <=> result.issues = << >>
            /\ blocking => result.issues # << >>
            /\ ~blocking => result.issues = << >>
            /\ (confidenceThreshold < Pct(10) \/ confidenceThreshold > Pct(90)) =>
                  result.warnings # << >>
            /\ (enabledPatternLanguages = {} /\ Includes(detectionOrder, PatternName)) =>
                  result.warnings # << >>
            /\ (Len(detectionOrder) = 1 \/ Len(detectionOrder) < Cardinality(Registered)) =>
                  result.recommendations # << >>

\* The input of the last import parses to a non-null object
ImportedAnObject ==
    /\ lastOp.input.kind = "json"
    /\ lastOp.input.value.kind \in {"object", "array"}

\* The result of the last import is that of a validation of the engine's
\* configuration as it is now.
ImportReportsValidation ==
    LET validation == ValidateConfiguration(CurrentConfiguration)
    IN  /\ lastOp.result.success <=> validation.issues = << >>
        /\ lastOp.result.errors = validation.issues
        /\ lastOp.result.warnings = validation.warnings

ImportReportsFailure ==
    /\ ~lastOp.result.success
    /\ lastOp.result.errors # << >>

\* C17 as stated: a payload that is unparsable or is not a non-null object
\* yields success = false with a non-empty error list; otherwise the payload
\* is applied, validateConfiguration is re-run on the resulting state and
\* success is true exactly when it has no issues, its issues being the
\* errors and its warnings the warnings.
C17_ImportReportsValidation ==
    lastOp.op = "importConfiguration" =>
        /\ ~ImportedAnObject => ImportReportsFailure
        /\ ImportedAnObject => ImportReportsValidation

\* C17 amended: as stated, except that a payload which parses to a non-null
\* object but whose application raises (a detector's setConfiguration
\* rejects its entry of detectorConfigs) also yields success = false with a
\* non-empty error list, without a validation; importConfiguration itself
\* never throws.
C17_ImportReportsValidationOrFailure ==
    lastOp.op = "importConfiguration" =>
        /\ ~ImportedAnObject => ImportReportsFailure
        /\ (ImportedAnObject /\ lastOp.applyThrew) => ImportReportsFailure
        /\ (ImportedAnObject /\ ~lastOp.applyThrew) => ImportReportsValidation

\* C17 witness: an imported object was applied, the validation of the
\* resulting state has an issue, and the import reports it as an error.
C17_Witness ==
    /\ lastOp.op = "importConfiguration"
    /\ ImportedAnObject
    /\ ~lastOp.applyThrew
    /\ detectionOrder = << >>
    /\ ~lastOp.result.success
    /\ lastOp.result.errors # << >>

\* C28: the orchestrator's enabledPatternLanguages equals the enabled-language
\* list of the registered pattern-matching detector, in every state reachable
\* through the engine's configuration operations.
C28_AllowListCopiesEqual ==
    RegistryHas(PatternName) =>
        instances[PatternName].enabledLanguages = enabledPatternLanguages

\* C29: importConfiguration(exportConfiguration()) leaves the detection
\* order, the global threshold and the enabled-language allow-list exactly as
\* they were before the export.
C29_Step ==
    (lastOp'.op = "importConfiguration" /\ lastOp'.input = ExportConfiguration) =>
        /\ detectionOrder' = detectionOrder
        /\ confidenceThreshold' = confidenceThreshold
        /\ enabledPatternLanguages' = enabledPatternLanguages

C29_ExportImportRoundTrip == [][C29_Step]_vars

-----------------------------------------------------------------------------
(* Allow-list and repeatability claims of sequential detection *)

\* The outcome of invocation k of the call was accepted: it ended the call
SettledAndAccepted(k) ==
    /\ k = Len(seqInvoked)
    /\ seqPc \in {"returned", "idle"}
    /\ seqResult = seqOutcomes[k]

\* The best score among the languages in allowed: the first in catalogue
\* order among the highest
BestScored(scores, allowed) ==
    CHOOSE i \in 1..Len(PatternLanguages) :
        /\ PatternLanguages[i] \in allowed
        /\ \A j \in 1..Len(PatternLanguages) :
              PatternLanguages[j] \in allowed =>
                  \/ scores[PatternLanguages[j]] < scores[PatternLanguages[i]]
                  \/ scores[PatternLanguages[j]] = scores[PatternLanguages[i]] /\ i <= j

SameAsPreviousRun ==
    (seqPc = "returned" /\ seqPrev # NoReturn) => seqResult = seqPrev

\* A step of a detection call changes nothing of the configuration
DetectionKeepsConfiguration == UNCHANGED <<registryVars, configVars, code>>

-----------------------------------------------------------------------------
(* Pattern detector claims *)

\* The pattern detector has just returned (nothing was set since)
PatternJustReturned == lastOp.op = "PatternMatchingDetector.detectLanguage"

ScoreNow(l) == CalculateLanguageConfidence(code, patterns[l])

PatternCandidateNow(l) ==
    IsLanguageEnabled(instances[PatternName], l) /\ ScoreNow(l) > 0

CataloguePosition(l) == CHOOSE i \in 1..Len(PatternLanguages) : PatternLanguages[i] = l

\* l is the top-ranked candidate: no candidate scores higher, and among the
\* candidates with its score it comes first in the catalogue
TopRanked(l) ==
    /\ PatternCandidateNow(l)
    /\ \A o \in Languages :
          PatternCandidateNow(o) =>
              \/ ScoreNow(o) < ScoreNow(l)
              \/ ScoreNow(o) = ScoreNow(l) /\ CataloguePosition(l) <= CataloguePosition(o)

\* confidence >= the detector's own threshold scaled to 0-100
MeetsOwnThreshold(l) ==
    ScoreNow(l) * FracScale >= instances[PatternName].minConfidence * 100 * PctScale

\* C18: the pattern detector returns its top-ranked candidate (with the
\* confidence rounded) exactly when that candidate's confidence is at least
\* the detector's own threshold scaled to 0-100, and none otherwise; with the
\* definition whose only entries are the keywords foo and bar, the code
\* 'foo bar foo' returns {alpha, 40} under the own threshold 0.30 and none
\* under 0.50.
C18_PatternSelfSuppresses ==
    PatternJustReturned =>
        /\ \A l \in Languages :
              TopRanked(l) /\ MeetsOwnThreshold(l) =>
                  patternResult = DetectionResult(l, RoundPct(ScoreNow(l)), PatternName)
        /\ (~ \E l \in Languages : TopRanked(l) /\ MeetsOwnThreshold(l)) =>
              patternResult = NoneOutcome
        /\ ( /\ code = FooBarFoo
             /\ patterns = KeywordsOnlyCatalogue
             /\ IsLanguageEnabled(instances[PatternName], "alpha") ) =>
              /\ ScoreNow("alpha") = Pct(40)
              /\ instances[PatternName].minConfidence = Frac(300) =>
                    patternResult = DetectionResult("alpha", Pct(40), PatternName)
              /\ instances[PatternName].minConfidence = Frac(500) =>
                    patternResult = NoneOutcome

\* The pattern detector returned alpha for a code string that scores exactly
\* its own threshold
C18_Witness ==
    /\ PatternJustReturned
    /\ TopRanked("alpha")
    /\ ScoreNow("alpha") = Pct(40)
    /\ instances[PatternName].minConfidence = Frac(400)
    /\ patternResult = DetectionResult("alpha", Pct(40), PatternName)

\* The score calculateLanguageConfidence returned for the language
ConfidenceOf(l) == oracle[PatternName].scores[l]

SubScoreNames == {"keywords", "patterns", "imports", "builtins", "comments"}

\* Only the keyword list of the definition is populated, and every keyword
\* is a word of the code
OnlyKeywordsFullyMatched(l) ==
    /\ patterns[l].keywords # << >>
    /\ patterns[l].patterns = << >>
    /\ patterns[l].imports = << >>
    /\ patterns[l].builtins = << >>
    /\ patterns[l].comments = NoComments
    /\ Range(patterns[l].keywords) \subseteq ExtractWords(code)

\* C24: for every enabled definition the confidence is the weighted sum
\* 0.40 keywords + 0.30 patterns + 0.15 imports + 0.10 builtins + 0.05 comments
\* of five sub-scores each within 0..100; it is within 0..100, and it is
\* exactly 40 for a definition whose only populated list is its keywords,
\* all of them matched.
C24_WeightedSumInRange ==
    PatternJustReturned =>
        \A l \in Languages :
            IsLanguageEnabled(instances[PatternName], l) =>
                LET s == lastOp.subScores[l]
                IN  /\ \A f \in SubScoreNames : 0 <= s[f] /\ s[f] <= Pct(100)
                    /\ ConfidenceOf(l) * 100 =
                           40 * s.keywords + 30 * s.patterns + 15 * s.imports
                           + 10 * s.builtins + 5 * s.comments
                    /\ 0 <= ConfidenceOf(l) /\ ConfidenceOf(l) <= Pct(100)
                    /\ OnlyKeywordsFullyMatched(l) => ConfidenceOf(l) = Pct(40)

\* C24 witness: a definition with all five lists has been scored on a code
\* string that matches one regex of eight, five imports of thirty and three
\* builtins of twenty: 0.3 * 12.5 + 0.15 * 16.67 + 0.1 * 20 = 8.25
C24_Witness ==
    /\ PatternJustReturned
    /\ patterns = LongCatalogue
    /\ code = FiveImports
    /\ IsLanguageEnabled(instances[PatternName], "alpha")
    /\ ConfidenceOf("alpha") * 100 = Pct(825)

\* score is min(100, matches / min(listSize, cap) * 100), 0 for an empty
\* list; matches counts the entries of the list that are words of the code
\* (cap 0: no cap)
IsCappedRatio(score, list, cap) ==
    LET matches == Cardinality({i \in 1..Len(list) : list[i] \in ExtractWords(code)})
        size == IF cap = 0 \/ Len(list) < cap THEN Len(list) ELSE cap
    IN  IF Len(list) = 0 THEN score = 0
        ELSE IF matches >= size THEN score = Pct(100)
        ELSE score * size = matches * Pct(100)

\* C25: the keyword, import and builtin sub-scores are
\* min(100, matches / min(listSize, cap) * 100) with cap 10 for keywords, 15
\* for builtins and none for imports, and 0 for an empty list; 10 matched
\* keywords of 30 score 100 and 5 matched imports of 30 score 16.67 (50 / 3).
C25_CappedMatchRatios ==
    PatternJustReturned =>
        /\ \A l \in Languages :
              LET s == lastOp.subScores[l]
              IN  /\ IsCappedRatio(s.keywords, patterns[l].keywords, 10)
                  /\ IsCappedRatio(s.builtins, patterns[l].builtins, 15)
                  /\ IsCappedRatio(s.imports, patterns[l].imports, 0)
        /\ (patterns = LongCatalogue /\ code = TenKeywords) =>
              lastOp.subScores["alpha"].keywords = Pct(100)
        /\ (patterns = LongCatalogue /\ code = FiveImports) =>
              3 * lastOp.subScores["alpha"].imports = Pct(50)

\* C25 witness: eleven keywords matched, of a list of thirty and of a list of
\* twelve, score 100 (the ratio 11 / 10 is capped)
C25_Witness ==
    /\ PatternJustReturned
    /\ patterns = LongCatalogue
    /\ code = ElevenKeywords
    /\ lastOp.subScores["alpha"].keywords = Pct(100)
    /\ lastOp.subScores["beta"].keywords = Pct(100)

\* C26: the regex sub-score is matched / evaluated * 100 over the first 8
\* regexes of the definition, where an unparseable regex is neither a match
\* nor evaluated (one matching and one unparseable regex score 100).
C26_UnparseableNotPenalized ==
    PatternJustReturned =>
        \A l \in Languages :
            LET regexes == patterns[l].patterns
                first == {i \in 1..Len(regexes) : i <= 8}
                evaluated == {i \in first : regexes[i].valid}
                matched == {i \in evaluated : regexes[i].token \in Range(code)}
                score == lastOp.subScores[l].patterns
            IN  /\ score * Cardinality(evaluated) = Cardinality(matched) * Pct(100)
                /\ evaluated = {} => score = 0

-----------------------------------------------------------------------------
(* Claims on a detection call interleaved with configuration operations *)

\* The acceptance check on a settled value, with the threshold and the
\* allow-list as they are now
AcceptedNow(name, settled) ==
    /\ settled.kind = "result"
    /\ settled.confidence >= confidenceThreshold
    /\ name = PatternName =>
          enabledPatternLanguages = {} \/ settled.language \in enabledPatternLanguages

\* C27: the list of detectors a sequential call consults is the list at the
\* start of the call: operations that disable, unregister or reorder
\* detectors while the call is suspended leave it alone, each member is
\* invoked in its old position and its result can be returned; each
\* acceptance check uses the global threshold and the allow-list current
\* when the detector's result arrives.
C27_Step ==
    /\ (seqPc = "idle" /\ seqPc' = "awaiting") =>
          seqDetectors' = FilterIn(detectionOrder, DOMAIN instances)
    /\ seqPc = "awaiting" => seqDetectors' = seqDetectors
    /\ (seqPc = "awaiting" /\ seqInvoked' # seqInvoked) =>
          seqInvoked' = Append(seqInvoked, seqDetectors[seqIdx + 1])
    /\ (seqPc = "awaiting" /\ seqOutcomes' # seqOutcomes) =>
          LET settled == seqOutcomes'[Len(seqOutcomes')]
          IN  /\ Len(seqOutcomes') = Len(seqOutcomes) + 1
              /\ AcceptedNow(seqDetectors[seqIdx], settled) =>
                    seqPc' = "returned" /\ seqResult' = settled
              /\ ~AcceptedNow(seqDetectors[seqIdx], settled) =>
                    /\ seqResult' = NoneOutcome
                    /\ seqIdx' = seqIdx + 1
                    /\ seqPc' = IF seqIdx < Len(seqDetectors) THEN "awaiting" ELSE "returned"

C27_MixedView == [][C27_Step]_vars

\* C27 witness: the call returned the result of the pattern detector, which
\* was disabled while the call was suspended, accepted at a confidence below
\* the threshold the call started with.
C27_Witness ==
    /\ seqPc = "returned"
    /\ seqResult.kind = "result"
    /\ seqResult.method = PatternName
    /\ seqResult.confidence = Pct(40)
    /\ PatternName \notin Range(detectionOrder)
    /\ confidenceThreshold = Pct(30)

-----------------------------------------------------------------------------
(* ML detector claims *)

\* The caller c has just entered ensureInitialized() in this step
Arrives(c) == mlCalls[c].pc = "idle" /\ mlCalls'[c].pc = "ensure"

\* The model constructor has run at most once since the last dispose()
ConstructedAtMostOnce == constructed <= 1

\* The callers that arrived since the last dispose() and wait for an
\* initialization wait for the one the detector holds
AwaitSameInitialization ==
    \A c \in Callers :
        ( /\ mlCalls[c].pc = "ensure"
          /\ mlCalls[c].sinceDispose
          /\ mlCalls[c].awaits.kind = "promise" ) =>
            mlCalls[c].awaits = initializationPromise

\* A call that runs the model runs a model that an initialization has
\* constructed; without a dispose() since it arrived that is the detector's
\* model, and the detector is initialized
RunsInitializedModel ==
    \A c \in Callers :
        mlCalls[c].pc = "running" =>
            /\ mlCalls[c].model # NoModel
            /\ mlCalls[c].model <= modelCount
            /\ mlCalls[c].sinceDispose =>
                  isInitialized /\ mlCalls[c].model = modelOperations

C30_Step ==
    /\ lastOp'.op = "VSCodeDetector.dispose" =>
          /\ modelOperations' = NoModel
          /\ ~isInitialized'
          /\ initializationPromise' = NullPromise
    /\ \A c \in Callers :
          Arrives(c) =>
              (modelCount' = modelCount + 1
                   <=> (~isInitialized /\ initializationPromise = NullPromise))
    /\ modelCount' # modelCount =>
          /\ modelCount' = modelCount + 1
          /\ \E c \in Callers : Arrives(c)

\* C30: the ML detector constructs its model lazily (inside a call that needs
\* it) and at most once between two dispose() calls, however many
\* detectLanguage / initialize calls run concurrently or in succession; the
\* callers that wait for an initialization wait for the same one; a detect
\* call runs the model only after an initialization has completed; dispose()
\* resets the detector, and the next call constructs the model again.
C30_LazyInitOnce ==
    /\ [](ConstructedAtMostOnce /\ AwaitSameInitialization /\ RunsInitializedModel)
    /\ [][C30_Step]_vars

\* C30 witness: after a dispose() the model was constructed a second time,
\* once, and two concurrent detect calls run that model.
C30_Witness ==
    /\ modelCount = 2
    /\ constructed = 1
    /\ modelOperations = 2
    /\ mlCalls[1].pc = "running" /\ mlCalls[1].model = 2
    /\ mlCalls[2].pc = "running" /\ mlCalls[2].model = 2

====
